---- MODULE Spec2Model ----
(***************************************************************************)
(* docbot: a derive macro that turns a documented command (or enum of      *)
(* commands) into an identifier lexer, an arity-driven argument parser,    *)
(* and path/help lookups.                                                  *)
(*                                                                         *)
(* A string is a sequence of one-character strings (<<"a","b">> is "ab").  *)
(* Argument names are pairs <<kind, n>>.  Indices are 1-based where Rust   *)
(* is 0-based.                                                             *)
(*                                                                         *)
(* The files under src/ belong to more than one revision of the            *)
(* repository.  docbot-derive/lib.rs:40-41 calls bits::path::emit and      *)
(* hands its result to bits::parse::emit as a third argument, while        *)
(* bits/parse.rs is the revision before the path type: its emit takes two  *)
(* arguments, and the impl of Command it emits (parse.rs:281-303) has no   *)
(* `type Path` item, which the trait requires (docbot/lib.rs:108).         *)
(* bits/path.rs:131 names PathParseError::NoInput, the name the doc        *)
(* comment of parse_opt (docbot/lib.rs:146-147) still uses for the variant *)
(* that docbot/lib.rs:43-53 declares as Incomplete.  parse.rs:30 reads    *)
(* `opts.subcommand` of a field, while opts.rs:56-59 declares `path` alone *)
(* for a field and keeps `subcommand` with the command (opts.rs:12-15), as *)
(* inputs/command.rs:22, bits/path.rs:14 and bits/help.rs:131 read it.     *)
(* With the files as they are no program that derives Docbot is compiled.  *)
(* The model follows every function as its file gives it, and takes from   *)
(* the specification the three items the files rely on and none holds: the *)
(* associated type Path of the impl of Command (Command_Path), the error   *)
(* behind the name NoInput (PathNoInput), and the value read as            *)
(* `opts.subcommand` of a rest field (opts_subcommand).  Every other       *)
(* definition is translated from the source.  The programs of the model    *)
(* are the programs that build once these three items are supplied.        *)
(***************************************************************************)
EXTENDS Integers, Sequences, FiniteSets, TLC

VARIABLES
    commands,   \* the derive input: command-set type -> declared commands
    stage,      \* "declared" | "built" | "rejected": before the derive,
                \* the emitted items are part of the built program, the
                \* build failed (in the derive, or on the emitted items)
    id_trie,    \* command-set type -> Trie built by Commands::new
    given,      \* the string last handed to FromStr for the id type
    found,      \* the Result FromStr returned for it
    tokens,     \* the token sequence handed to Command::parse
    pos,        \* tokens taken from the iterator so far
    frames,     \* call stack of Command::parse (subcommands nest); in
                \* SpecPath and SpecHelp the calls made so far
    converted,  \* positions of the tokens on which str::parse was called
                \* (for a field by Command::parse, for an id by
                \* CommandPath::parse)
    result      \* what the outermost Command::parse returned; in SpecPath
                \* and SpecHelp what each call returned

vars == <<commands, stage, id_trie, given, found, tokens, pos, frames, converted, result>>

----------------------------------------------------------------------------
(* Bounds of the model *)

\* most ids (aliases included) one command set declares in SpecId
MaxDecl == 3
\* longest string handed to the id lexer in SpecId
MaxLen == 2
\* most tokens following the head token in Spec
MaxArgs == 3
\* most required fields of the parametric command in Spec
MaxReq == 2
\* most optional fields of the parametric command in Spec
MaxOpt == 2
\* the most argument tokens of a usage line
MaxTokens == 3

\* most required and optional arguments of a usage in SpecArgs
MaxDocArgs == 2

\* most lines of an arguments section in SpecArgs
MaxLines == 3

\* most paragraphs after the usage paragraph of a doc comment in SpecDocs
MaxPars == 3

\* most fields of a structure or variant in SpecBuild
MaxFields == 2

\* most errors of a folded error that hold another CommandParseError in
\* SpecFold
MaxNest == 4

\* most levels of a path handed to Help::help in SpecHelp
MaxDepth == 2

\* most calls of Help::help on one program in SpecHelp
MaxCalls == 2

----------------------------------------------------------------------------
(* Strings *)

\* char::to_lowercase on the alphabet of the model
UpperCase ==
    <<"A", "B", "C", "D", "E", "F", "G", "H", "I", "J", "K", "L", "M", "N", "O", "P", "Q", "R", "S", "T", "U", "V", "W", "X", "Y", "Z">>
LowerCase ==
    <<"a", "b", "c", "d", "e", "f", "g", "h", "i", "j", "k", "l", "m", "n", "o", "p", "q", "r", "s", "t", "u", "v", "w", "x", "y", "z">>
Lower(c) ==
    IF \E i \in 1..Len(UpperCase) : UpperCase[i] = c
    THEN LowerCase[CHOOSE i \in 1..Len(UpperCase) : UpperCase[i] = c]
    ELSE c

\* str::to_lowercase
to_lowercase(s) == [i \in 1..Len(s) |-> Lower(s[i])]

IsPrefix(p, s) == Len(p) <= Len(s) /\ SubSeq(s, 1, Len(p)) = p

RECURSIVE Range(_)
Range(s) == IF s = <<>> THEN {} ELSE {Head(s)} \cup Range(Tail(s))

RECURSIVE Flatten(_)
Flatten(ss) == IF ss = <<>> THEN <<>> ELSE Head(ss) \o Flatten(Tail(ss))

\* all sequences over S of length at most n
RECURSIVE SeqsUpTo(_, _)
SeqsUpTo(S, n) ==
    IF n = 0 THEN {<<>>}
    ELSE LET shorter == SeqsUpTo(S, n - 1)
         IN shorter \cup {Append(s, x) : s \in {t \in shorter : Len(t) = n - 1}, x \in S}

----------------------------------------------------------------------------
(* Trie<T> and its construction (trie.rs) *)

\* Option::None for Option<usize>; Some(i) is i + 1 here
None == 0

\* TrieNodeParts::default() as the root: the tree is a map node path -> leaf
EmptyParts == (<<>> :> None)

\* an insert_payload that replaces the payload of a node already taken
RECURSIVE insert_payload_overwrite(_, _, _, _)
insert_payload_overwrite(parts, payload, path, breadcrumb) ==
    IF path = <<>>
    THEN [ok |-> TRUE, parts |-> [parts EXCEPT ![breadcrumb] = payload], err |-> <<>>]
    ELSE LET child == Append(breadcrumb, Head(path))
             next == IF child \in DOMAIN parts THEN parts ELSE parts @@ (child :> None)
         IN insert_payload_overwrite(next, payload, Tail(path), child)

\* insert_payload: walk `path` below the node `breadcrumb`, creating nodes
RECURSIVE insert_payload(_, _, _, _)
insert_payload(parts, payload, path, breadcrumb) ==
    IF path = <<>>
    THEN IF parts[breadcrumb] = None
         THEN [ok |-> TRUE, parts |-> [parts EXCEPT ![breadcrumb] = payload], err |-> <<>>]
         ELSE [ok |-> FALSE, parts |-> parts, err |-> breadcrumb]
    ELSE LET child == Append(breadcrumb, Head(path))
             next == IF child \in DOMAIN parts THEN parts ELSE parts @@ (child :> None)
         IN insert_payload(next, payload, Tail(path), child)

\* the for loop of Trie::new over the entries <<path, payload>>
RECURSIVE Trie_new_loop(_, _, _)
Trie_new_loop(it, payloads, root) ==
    IF it = <<>>
    THEN [ok |-> TRUE, payloads |-> payloads, root |-> root, err |-> <<>>]
    ELSE LET id == Len(payloads) + 1
             r == insert_payload(root, id, Head(it)[1], <<>>)
         IN IF r.ok
            THEN Trie_new_loop(Tail(it), Append(payloads, Head(it)), r.parts)
            ELSE [ok |-> FALSE, payloads |-> <<>>, root |-> EmptyParts, err |-> r.err]

\* the keys of the children of a node, as the paths of the child nodes
Children(parts, node) ==
    {c \in DOMAIN parts : Len(c) = Len(node) + 1 /\ IsPrefix(node, c)}

\* the orders in which the iteration of a HashMap may yield the entries S:
\* the order is unspecified and differs from one map and one run to the next
IterationOrders(S) ==
    {o \in SeqsUpTo(S, Cardinality(S)) : Len(o) = Cardinality(S) /\ Range(o) = S}

\* From<TrieNodeParts> for TrieNode, as the payload lists (TrieNode::payloads)
\* of the node and of every node below it: the children are converted first;
\* a node that ends an entry holds that entry alone, any other node the
\* lists of its children, chained in the order children.values() yields
\* them.  The result is the set of the trees the conversion can produce
RECURSIVE TrieNode_from(_, _), children_payloads(_, _)
TrieNode_from(parts, node) ==
    UNION {{cp.nodes @@ (node :> IF parts[node] # None THEN <<parts[node]>> ELSE cp.payloads) :
                cp \in children_payloads(parts, order)} :
              order \in IterationOrders(Children(parts, node))}

\* the flat_map over children.values() for one iteration order: the
\* converted children and their payload lists, chained
children_payloads(parts, order) ==
    IF order = <<>> THEN {[nodes |-> <<>>, payloads |-> <<>>]}
    ELSE {[nodes |-> h @@ t.nodes, payloads |-> h[Head(order)] \o t.payloads] :
             h \in TrieNode_from(parts, Head(order)),
             t \in children_payloads(parts, Tail(order))}

\* a Trie: the payloads, the nodes as inserted (root) and the payload list
\* of every node (nodes); a failed Trie::new carries the breadcrumb (err)
Trie(ok, payloads, root, nodes, err) ==
    [ok |-> ok, payloads |-> payloads, root |-> root, nodes |-> nodes, err |-> err]

\* the value of id_trie before Commands::new has run
NoTrie == Trie(FALSE, <<>>, EmptyParts, (<<>> :> <<>>), <<>>)

\* Trie::new: the tries `root: root.into()` can produce, or the error
Trie_new(it) ==
    LET r == Trie_new_loop(it, <<>>, EmptyParts)
    IN IF r.ok
       THEN {Trie(TRUE, r.payloads, r.root, n, <<>>) : n \in TrieNode_from(r.root, <<>>)}
       ELSE {Trie(FALSE, <<>>, EmptyParts, (<<>> :> <<>>), r.err)}

----------------------------------------------------------------------------
(* The generated id type: FromStr, CommandId (bits/id.rs) *)

\* usage.ids of every command, in declaration order (CommandId::names)
names(cmds) == Flatten([i \in 1..Len(cmds) |-> cmds[i].ids])

\* a to_str that answers with the last-listed id
to_str_last_listed(cmds, id) == cmds[id].ids[Len(cmds[id].ids)]

\* CommandId::to_str: the first-listed id
to_str(cmds, id) == cmds[id].ids[1]

\* entries that keep the ids in their declared letter case
trie_entries_as_declared(cmds) ==
    Flatten([i \in 1..Len(cmds) |->
                [j \in 1..Len(cmds[i].ids) |-> <<cmds[i].ids[j], i>>]])

\* the entries Commands::new hands to Trie::new: (lowercased id, variant)
trie_entries(cmds) ==
    Flatten([i \in 1..Len(cmds) |->
                [j \in 1..Len(cmds[i].ids) |-> <<to_lowercase(cmds[i].ids[j]), i>>]])

NoId == 0
NoIdError == [tag |-> "none", given |-> <<>>, names |-> <<>>]

\* parse_no_match
parse_no_match(cmds, s) ==
    [ok |-> FALSE, id |-> NoId, err |-> [tag |-> "NoMatch", given |-> s, names |-> names(cmds)]]

\* a parse_ambiguous that carries the lowercased copy in place of the input
parse_ambiguous_lowered(s, values) ==
    [ok |-> FALSE, id |-> NoId,
     err |-> [tag |-> "Ambiguous", given |-> to_lowercase(s), names |-> values]]

\* parse_ambiguous
parse_ambiguous(s, values) ==
    [ok |-> FALSE, id |-> NoId, err |-> [tag |-> "Ambiguous", given |-> s, names |-> values]]

\* the `ok` closure handed to to_lexer
parse_ok(p) == [ok |-> TRUE, id |-> p, err |-> NoIdError]

\* a parse_resolve_ambiguous without the comparison of the payloads
parse_resolve_ambiguous_first(values) ==
    IF values = <<>> THEN NoId ELSE values[1][2]

\* parse_resolve_ambiguous: Some(first payload) when all payloads are equal;
\* NoId stands for Option::None
parse_resolve_ambiguous(values) ==
    IF values = <<>> THEN NoId
    ELSE IF \E i \in 2..Len(values) : values[i][2] # values[1][2] THEN NoId
    ELSE values[1][2]

\* the `None =>` arm to_lexer emits for one node
lexer_eof(cmds, trie, node, s) ==
    LET payloads == trie.nodes[node]
        entries == [i \in 1..Len(payloads) |-> trie.payloads[payloads[i]]]
    IN IF Len(payloads) = 0 THEN parse_no_match(cmds, s)
       ELSE IF Len(payloads) = 1 THEN parse_ok(entries[1][2])
       ELSE LET r == parse_resolve_ambiguous(entries)
            IN IF r = NoId
               THEN parse_ambiguous(s, [i \in 1..Len(entries) |-> entries[i][1]])
               ELSE parse_ok(r)

\* a to_lexer whose `_` arm falls back to the node reached so far
RECURSIVE to_lexer_lenient(_, _, _, _, _)
to_lexer_lenient(cmds, trie, node, iter, s) ==
    IF iter = <<>> THEN lexer_eof(cmds, trie, node, s)
    ELSE LET child == Append(node, Head(iter))
         IN IF child \in DOMAIN trie.root
            THEN to_lexer_lenient(cmds, trie, child, Tail(iter), s)
            ELSE lexer_eof(cmds, trie, node, s)

\* the match to_lexer emits: one arm per child, `_ => no_match`
RECURSIVE to_lexer(_, _, _, _, _)
to_lexer(cmds, trie, node, iter, s) ==
    IF iter = <<>> THEN lexer_eof(cmds, trie, node, s)
    ELSE LET child == Append(node, Head(iter))
         IN IF child \in DOMAIN trie.root
            THEN to_lexer(cmds, trie, child, Tail(iter), s)
            ELSE parse_no_match(cmds, s)

\* FromStr::from_str of the id type
from_str(cmds, trie, s) == to_lexer(cmds, trie, <<>>, to_lowercase(s), s)

----------------------------------------------------------------------------
(* The derive input (docs.rs CommandUsage, opts.rs CommandOpts) *)

RestNone == [kind |-> "None", name |-> <<>>]
RestOptional(n) == [kind |-> "Optional", name |-> n]
RestRequired(n) == [kind |-> "Required", name |-> n]

\* one command: its CommandUsage (ids, required, optional, rest) and, for
\* #[docbot(subcommand)], the command-set type of its single rest field
\* ("" when the command is no subcommand)
Command(ids, required, optional, rest, sub) ==
    [ids |-> ids, required |-> required, optional |-> optional, rest |-> rest, sub |-> sub]

\* Commands::new: one Trie per command set; the derive fails if one fails.
\* The result is the set of the tries the run of the macro can build
Commands_new(cmdsets) ==
    {t \in [DOMAIN cmdsets -> UNION {Trie_new(trie_entries(cmdsets[ty])) : ty \in DOMAIN cmdsets}] :
        \A ty \in DOMAIN cmdsets : t[ty] \in Trie_new(trie_entries(cmdsets[ty]))}

----------------------------------------------------------------------------
(* Specification SpecId: the id lexer of one command set *)

\* the ids a declaration may list
IdPool == {<<"a">>, <<"a", "a">>, <<"a", "b">>, <<"B">>, <<"A", "b">>}

\* the characters of the strings handed to the lexer
InputChars == {"a", "A", "B"}

\* cut the flat id list into commands: a new command starts after every
\* position in `cut`
RECURSIVE Group(_, _, _, _)
Group(flat, cut, i, cur) ==
    IF i > Len(flat) THEN <<Command(cur, <<>>, <<>>, RestNone, "")>>
    ELSE IF (i - 1) \in cut
         THEN <<Command(cur, <<>>, <<>>, RestNone, "")>> \o Group(flat, cut, i + 1, <<flat[i]>>)
         ELSE Group(flat, cut, i + 1, Append(cur, flat[i]))

\* every enum of unit commands declaring at most MaxDecl ids from IdPool
DeclaredSets ==
    UNION {{Group(flat, cut, 2, <<flat[1]>>) : cut \in SUBSET (1..(Len(flat) - 1))} :
              flat \in SeqsUpTo(IdPool, MaxDecl) \ {<<>>}}

NoFound == [ok |-> FALSE, id |-> NoId, err |-> NoIdError]

InitId ==
    /\ commands \in {("Cli" :> cs) : cs \in DeclaredSets}
    /\ stage = "declared"
    /\ id_trie = [ty \in DOMAIN commands |-> NoTrie]
    /\ given = <<>>
    /\ found = NoFound
    /\ tokens = <<>>
    /\ pos = 0
    /\ frames = <<>>
    /\ converted = <<>>
    /\ result = <<>>

\* inputs::assemble / Commands::new: build the lexer tries, or fail
Assemble ==
    /\ stage = "declared"
    /\ id_trie' \in Commands_new(commands)
    /\ stage' = IF \A ty \in DOMAIN commands : id_trie'[ty].ok THEN "built" ELSE "rejected"
    /\ UNCHANGED <<commands, given, found, tokens, pos, frames, converted, result>>

\* one call of <Id as FromStr>::from_str
FromStr(s) ==
    /\ stage = "built"
    /\ given' = s
    /\ found' = from_str(commands["Cli"], id_trie["Cli"], s)
    /\ UNCHANGED <<commands, stage, id_trie, tokens, pos, frames, converted, result>>

NextId ==
    \/ Assemble
    \/ \E s \in SeqsUpTo(InputChars, MaxLen) : FromStr(s)

SpecId == InitId /\ [][NextId]_vars

----------------------------------------------------------------------------
(* The generated Command::parse (bits/parse.rs) *)

\* name and FieldMode of every field, in the order required, optional, rest
\* (field_info).  The opts of a field are those of attrs::parse_field, which
\* hold `path` alone; no field of these programs is tagged path
field_info(cmd) ==
    [i \in 1..Len(cmd.required) |->
        [name |-> cmd.required[i], mode |-> "Required", opts |-> [path |-> FALSE]]]
    \o [i \in 1..Len(cmd.optional) |->
        [name |-> cmd.optional[i], mode |-> "Optional", opts |-> [path |-> FALSE]]]
    \o (CASE cmd.rest.kind = "None" -> <<>>
          [] cmd.rest.kind = "Optional" ->
                <<[name |-> cmd.rest.name, mode |-> "RestOptional", opts |-> [path |-> FALSE]]>>
          [] cmd.rest.kind = "Required" ->
                <<[name |-> cmd.rest.name, mode |-> "RestRequired", opts |-> [path |-> FALSE]]>>)

\* what collect_rest reads as `opts.subcommand` of the rest field: whether
\* the command is tagged #[docbot(subcommand)], the tag under which its
\* single rest field delegates to the nested command type
opts_subcommand(cmd) == cmd.sub # ""

\* FieldMode::rest
rest(mode) == mode \in {"RestRequired", "RestOptional"}

\* the checks of Command::new on a subcommand: a single rest field
Command_new_ok(cmd) ==
    cmd.sub # "" => (Len(field_info(cmd)) = 1 /\ rest(field_info(cmd)[1].mode))

\* CommandParseError
NoError == [tag |-> "none"]
NoInput == [tag |-> "NoInput"]
BadId(e) == [tag |-> "BadId", id_err |-> e]
MissingRequired(cmd, arg) == [tag |-> "MissingRequired", cmd |-> cmd, arg |-> arg]
BadConvert(cmd, arg, cause) == [tag |-> "BadConvert", cmd |-> cmd, arg |-> arg, cause |-> cause]
Trailing(cmd, extra) == [tag |-> "Trailing", cmd |-> cmd, extra |-> extra]
Subcommand(cmd, inner) == [tag |-> "Subcommand", cmd |-> cmd, inner |-> inner]

\* a command value: the variant and its fields in declaration order
Value(ty, id, fields) == [ty |-> ty, id |-> id, fields |-> fields]
NoValue == Value("", NoId, <<>>)

\* Result<Self, CommandParseError>
Ok(v) == [ok |-> TRUE, val |-> v, err |-> NoError]
Err(e) == [ok |-> FALSE, val |-> NoValue, err |-> e]

\* Command::id of a value
id_of(v) == v.id

\* char::to_digit(10)
to_digit(c) == CASE c = "1" -> 1 [] c = "2" -> 2 [] OTHER -> -1

\* <u8 as FromStr>::from_str, the field type of the modelled commands
RECURSIVE parse_u8_digits(_, _)
parse_u8_digits(s, acc) ==
    IF s = <<>> THEN [ok |-> TRUE, val |-> acc, err |-> "none"]
    ELSE IF to_digit(Head(s)) < 0 THEN [ok |-> FALSE, val |-> 0, err |-> "InvalidDigit"]
    ELSE IF acc * 10 + to_digit(Head(s)) > 255 THEN [ok |-> FALSE, val |-> 0, err |-> "PosOverflow"]
    ELSE parse_u8_digits(Tail(s), acc * 10 + to_digit(Head(s)))

\* s.as_ref().parse() for a field
parse_arg(s) ==
    IF s = <<>> THEN [ok |-> FALSE, val |-> 0, err |-> "Empty"]
    ELSE parse_u8_digits(s, 0)

\* a collect_rest that converts every remaining token before it reports the
\* first failure
collect_rest_exhaustive(toks, cmd, arg, i, acc) ==
    LET rs == [k \in 1..(Len(toks) - i) |-> parse_arg(toks[i + k])]
        bad == {k \in DOMAIN rs : ~rs[k].ok}
    IN IF bad = {}
       THEN [ok |-> TRUE, vals |-> acc \o [k \in DOMAIN rs |-> rs[k].val],
             err |-> NoError, pos |-> Len(toks)]
       ELSE [ok |-> FALSE, vals |-> <<>>,
             err |-> BadConvert(cmd, arg, rs[CHOOSE k \in bad : \A j \in bad : k <= j].err),
             pos |-> Len(toks)]

\* collect_rest for a plain rest field: convert the tokens after position i
\* in order and stop at the first failure
RECURSIVE collect_rest(_, _, _, _, _)
collect_rest(toks, cmd, arg, i, acc) ==
    IF i >= Len(toks) THEN [ok |-> TRUE, vals |-> acc, err |-> NoError, pos |-> i]
    ELSE LET c == parse_arg(toks[i + 1])
         IN IF c.ok
            THEN collect_rest(toks, cmd, arg, i + 1, Append(acc, c.val))
            ELSE [ok |-> FALSE, vals |-> <<>>, err |-> BadConvert(cmd, arg, c.err), pos |-> i + 1]

\* one activation of Command::parse
NoOut == Err(NoError)
NewFrame(ty) == [ty |-> ty, id |-> NoId, field |-> 1, vals |-> <<>>, pc |-> "head", out |-> NoOut]

Top == frames[Len(frames)]
SetTop(f) == [frames EXCEPT ![Len(frames)] = f]
Return(f, out) == [f EXCEPT !.pc = "done", !.out = out]
TopCmd == commands[Top.ty][Top.id]
TopName == to_str(commands[Top.ty], Top.id)
TopField == field_info(TopCmd)[Top.field]
AtField(mode) ==
    /\ frames # <<>>
    /\ Top.pc = "fields"
    /\ Top.field <= Len(field_info(TopCmd))
    /\ TopField.mode = mode

\* Fuse<I>::next() yields a token
HasNext == pos < Len(tokens)

\* a head that reports every failed lookup as NoMatch
ParseHead_NoMatchOnly ==
    /\ frames # <<>>
    /\ Top.pc = "head"
    /\ IF ~HasNext
       THEN /\ frames' = SetTop(Return(Top, Err(NoInput)))
            /\ UNCHANGED <<pos, given, found>>
       ELSE LET r == from_str(commands[Top.ty], id_trie[Top.ty], tokens[pos + 1])
            IN /\ pos' = pos + 1
               /\ given' = tokens[pos + 1]
               /\ found' = r
               /\ frames' = SetTop(IF r.ok
                                   THEN [Top EXCEPT !.id = r.id, !.pc = "fields"]
                                   ELSE Return(Top, Err(BadId(
                                            parse_no_match(commands[Top.ty], tokens[pos + 1]).err))))
    /\ UNCHANGED <<commands, stage, id_trie, tokens, converted, result>>

\* a head that parses the first token and leaves it in the stream
ParseHead_Peeked ==
    /\ frames # <<>>
    /\ Top.pc = "head"
    /\ IF ~HasNext
       THEN /\ frames' = SetTop(Return(Top, Err(NoInput)))
            /\ UNCHANGED <<given, found>>
       ELSE LET r == from_str(commands[Top.ty], id_trie[Top.ty], tokens[pos + 1])
            IN /\ given' = tokens[pos + 1]
               /\ found' = r
               /\ frames' = SetTop(IF r.ok
                                   THEN [Top EXCEPT !.id = r.id, !.pc = "fields"]
                                   ELSE Return(Top, Err(BadId(r.err))))
    /\ UNCHANGED <<commands, stage, id_trie, tokens, pos, converted, result>>

\* the head of Command::parse: take the first token and parse it as an id
ParseHead ==
    /\ frames # <<>>
    /\ Top.pc = "head"
    /\ IF ~HasNext
       THEN /\ frames' = SetTop(Return(Top, Err(NoInput)))
            /\ UNCHANGED <<pos, given, found>>
       ELSE LET r == from_str(commands[Top.ty], id_trie[Top.ty], tokens[pos + 1])
            IN /\ pos' = pos + 1
               /\ given' = tokens[pos + 1]
               /\ found' = r
               /\ frames' = SetTop(IF r.ok
                                   THEN [Top EXCEPT !.id = r.id, !.pc = "fields"]
                                   ELSE Return(Top, Err(BadId(r.err))))
    /\ UNCHANGED <<commands, stage, id_trie, tokens, converted, result>>

\* a required field that looks for surplus tokens before it converts
FieldRequired_TrailingFirst ==
    /\ AtField("Required")
    /\ LET left == Len(field_info(TopCmd)) - Top.field + 1
       IN IF TopCmd.rest.kind = "None" /\ Len(tokens) - pos > left
          THEN /\ frames' = SetTop(Return(Top, Err(Trailing(TopName, tokens[pos + left + 1]))))
               /\ UNCHANGED <<pos, converted>>
          ELSE IF ~HasNext
          THEN /\ frames' = SetTop(Return(Top, Err(MissingRequired(TopName, TopField.name))))
               /\ UNCHANGED <<pos, converted>>
          ELSE LET c == parse_arg(tokens[pos + 1])
               IN /\ pos' = pos + 1
                  /\ converted' = Append(converted, pos + 1)
                  /\ frames' = SetTop(IF c.ok
                                      THEN [Top EXCEPT !.field = @ + 1, !.vals = Append(@, c.val)]
                                      ELSE Return(Top, Err(BadConvert(TopName, TopField.name, c.err))))
    /\ UNCHANGED <<commands, stage, id_trie, given, found, tokens, result>>

\* ctor_fields, FieldMode::Required
FieldRequired ==
    /\ AtField("Required")
    /\ IF ~HasNext
       THEN /\ frames' = SetTop(Return(Top, Err(MissingRequired(TopName, TopField.name))))
            /\ UNCHANGED <<pos, converted>>
       ELSE LET c == parse_arg(tokens[pos + 1])
            IN /\ pos' = pos + 1
               /\ converted' = Append(converted, pos + 1)
               /\ frames' = SetTop(IF c.ok
                                   THEN [Top EXCEPT !.field = @ + 1, !.vals = Append(@, c.val)]
                                   ELSE Return(Top, Err(BadConvert(TopName, TopField.name, c.err))))
    /\ UNCHANGED <<commands, stage, id_trie, given, found, tokens, result>>

\* an optional field that stays None and leaves its token to a later field
FieldOptional_LeavesToken ==
    /\ AtField("Optional")
    /\ IF ~HasNext \/ Top.field < Len(field_info(TopCmd))
       THEN /\ frames' = SetTop([Top EXCEPT !.field = @ + 1, !.vals = Append(@, <<>>)])
            /\ UNCHANGED <<pos, converted>>
       ELSE LET c == parse_arg(tokens[pos + 1])
            IN /\ pos' = pos + 1
               /\ converted' = Append(converted, pos + 1)
               /\ frames' = SetTop(IF c.ok
                                   THEN [Top EXCEPT !.field = @ + 1, !.vals = Append(@, <<c.val>>)]
                                   ELSE Return(Top, Err(BadConvert(TopName, TopField.name, c.err))))
    /\ UNCHANGED <<commands, stage, id_trie, given, found, tokens, result>>

\* ctor_fields, FieldMode::Optional: None is <<>>, Some(v) is <<v>>
FieldOptional ==
    /\ AtField("Optional")
    /\ IF ~HasNext
       THEN /\ frames' = SetTop([Top EXCEPT !.field = @ + 1, !.vals = Append(@, <<>>)])
            /\ UNCHANGED <<pos, converted>>
       ELSE LET c == parse_arg(tokens[pos + 1])
            IN /\ pos' = pos + 1
               /\ converted' = Append(converted, pos + 1)
               /\ frames' = SetTop(IF c.ok
                                   THEN [Top EXCEPT !.field = @ + 1, !.vals = Append(@, <<c.val>>)]
                                   ELSE Return(Top, Err(BadConvert(TopName, TopField.name, c.err))))
    /\ UNCHANGED <<commands, stage, id_trie, given, found, tokens, result>>

\* the expression collect_rest emits, evaluated on the remaining tokens: a
\* call of the nested Command::parse, or the conversion of every token
CollectRest ==
    IF opts_subcommand(TopCmd)
    THEN /\ frames' = Append(SetTop([Top EXCEPT !.pc = "call"]), NewFrame(TopCmd.sub))
         /\ UNCHANGED <<pos, converted>>
    ELSE LET r == collect_rest(tokens, TopName, TopField.name, pos, <<>>)
         IN /\ pos' = r.pos
            /\ converted' = converted \o [k \in 1..(r.pos - pos) |-> pos + k]
            /\ frames' = SetTop(Return(Top,
                            IF r.ok
                            THEN Ok(Value(Top.ty, Top.id, Append(Top.vals, r.vals)))
                            ELSE Err(r.err)))

\* a required rest field that collects without the peek
FieldRestRequired_Unpeeked ==
    /\ AtField("RestRequired")
    /\ CollectRest
    /\ UNCHANGED <<commands, stage, id_trie, given, found, tokens, result>>

\* ctor_fields, FieldMode::RestRequired: peek, then collect
FieldRestRequired ==
    /\ AtField("RestRequired")
    /\ IF HasNext
       THEN CollectRest
       ELSE /\ frames' = SetTop(Return(Top, Err(MissingRequired(TopName, TopField.name))))
            /\ UNCHANGED <<pos, converted>>
    /\ UNCHANGED <<commands, stage, id_trie, given, found, tokens, result>>

\* ctor_fields, FieldMode::RestOptional: collect
FieldRestOptional ==
    /\ AtField("RestOptional")
    /\ CollectRest
    /\ UNCHANGED <<commands, stage, id_trie, given, found, tokens, result>>

\* a command without rest field that ignores the tokens left
TrailingCheck_Unchecked ==
    /\ frames # <<>>
    /\ Top.pc = "fields"
    /\ Top.field > Len(field_info(TopCmd))
    /\ frames' = SetTop(Return(Top, Ok(Value(Top.ty, Top.id, Top.vals))))
    /\ UNCHANGED <<commands, stage, id_trie, given, found, tokens, pos, converted, result>>

\* ctor_fields for RestArg::None: build the value, then reject a token left
TrailingCheck ==
    /\ frames # <<>>
    /\ Top.pc = "fields"
    /\ Top.field > Len(field_info(TopCmd))
    /\ IF HasNext
       THEN /\ pos' = pos + 1
            /\ frames' = SetTop(Return(Top, Err(Trailing(TopName, tokens[pos + 1]))))
       ELSE /\ frames' = SetTop(Return(Top, Ok(Value(Top.ty, Top.id, Top.vals))))
            /\ UNCHANGED pos
    /\ UNCHANGED <<commands, stage, id_trie, given, found, tokens, converted, result>>

\* the nested Command::parse returns into collect_rest's map_err
SubcommandReturn ==
    /\ Len(frames) >= 2
    /\ Top.pc = "done"
    /\ LET caller == frames[Len(frames) - 1]
           out == IF Top.out.ok
                  THEN Ok(Value(caller.ty, caller.id, Append(caller.vals, Top.out.val)))
                  ELSE Err(Subcommand(to_str(commands[caller.ty], caller.id), Top.out.err))
       IN frames' = Append(SubSeq(frames, 1, Len(frames) - 2), Return(caller, out))
    /\ UNCHANGED <<commands, stage, id_trie, given, found, tokens, pos, converted, result>>

\* the outermost Command::parse returns to its caller
ParseReturn ==
    /\ Len(frames) = 1
    /\ Top.pc = "done"
    /\ result' = <<Top.out>>
    /\ frames' = <<>>
    /\ UNCHANGED <<commands, stage, id_trie, given, found, tokens, pos, converted>>

----------------------------------------------------------------------------
(* Specification Spec: Command::parse of a derived program *)

ReqName(i) == <<"req", i>>
OptName(i) == <<"opt", i>>
RestName == <<"rest", 1>>

\* the parametric command: `(ab|Bc)` with req required, opt optional fields
\* and the rest field of the shape
ShapedCommand(shape) ==
    Command(<<<<"a", "b">>, <<"B", "c">>>>,
            [i \in 1..shape.req |-> ReqName(i)],
            [i \in 1..shape.opt |-> OptName(i)],
            CASE shape.rest = "None" -> RestNone
              [] shape.rest = "Optional" -> RestOptional(RestName)
              [] shape.rest = "Required" -> RestRequired(RestName),
            IF shape.sub THEN "Sub" ELSE "")

\* a derived program: enum Cli { the parametric command, `Ac` },
\* enum Sub { `1a <n>`, `12`, `1 [leaf...]` }, struct Leaf: `(1|12) [o]`;
\* `nested` tells whether `1` of Sub is a subcommand of type Leaf.  In Sub
\* and Leaf every id extends the id `1`, so that their tries have one payload
\* list per node whatever the order of the children; the trie of Cli has a
\* node for the prefix `a` of two commands and two children of the root
DerivedProgram(shape, nested) ==
    [ty \in {"Cli", "Sub", "Leaf"} |->
        CASE ty = "Cli" ->
                <<ShapedCommand(shape),
                  Command(<<<<"A", "c">>>>, <<>>, <<>>, RestNone, "")>>
          [] ty = "Sub" ->
                <<Command(<<<<"1", "a">>>>, <<<<"n", 1>>>>, <<>>, RestNone, ""),
                  Command(<<<<"1", "2">>>>, <<>>, <<>>, RestNone, ""),
                  Command(<<<<"1">>>>, <<>>, <<>>, RestOptional(<<"leaf", 1>>),
                          IF nested THEN "Leaf" ELSE "")>>
          [] ty = "Leaf" ->
                <<Command(<<<<"1">>, <<"1", "2">>>>, <<>>, <<<<"o", 1>>>>, RestNone, "")>>]

\* bits/path.rs emit: the path type is the id type unless a command of the
\* set is a subcommand
is_id(cmds) == ~\E i \in 1..Len(cmds) : cmds[i].sub # ""

\* <T as Command>::Path, the item `type Path` of the impl of Command: the
\* id type of the set ("Id"), or the path type bits/path.rs generates for a
\* set with a subcommand ("Path")
Command_Path(cmds) == IF is_id(cmds) THEN "Id" ELSE "Path"

Shapes ==
    {sh \in [req : 0..MaxReq, opt : 0..MaxOpt,
             rest : {"None", "Optional", "Required"}, sub : BOOLEAN] :
        Command_new_ok(ShapedCommand(sh))}

\* the programs: every shape of the parametric command, Sub with and
\* without its subcommand
Programs == {DerivedProgram(sh, nested) : sh \in Shapes, nested \in BOOLEAN}

\* the programs of Spec: Sub with its subcommand, which a call of
\* <Cli as Command>::parse reaches only through a subcommand of Cli
ParsePrograms == {DerivedProgram(sh, TRUE) : sh \in Shapes}

\* head tokens: the canonical id, another case, the alias, an abbreviation
\* of the alias, an ambiguous prefix, the other command, no id at all
HeadPool == {<<"a", "b">>, <<"A", "B">>, <<"B", "c">>, <<"b">>, <<"a">>, <<"a", "c">>, <<"1">>}

\* argument tokens: two numbers and a word; as head tokens of Sub (SpecPath)
\* its three commands
ArgPool == {<<"1">>, <<"1", "2">>, <<"1", "a">>}

Streams == {<<>>} \cup {<<h>> \o args : h \in HeadPool, args \in SeqsUpTo(ArgPool, MaxArgs)}

\* a program after the derive has run on each of its types, and a call of
\* <Cli as Command>::parse on a token stream
Init ==
    /\ commands \in ParsePrograms
    /\ stage = "built"
    /\ id_trie \in Commands_new(commands)
    /\ \A ty \in DOMAIN commands : id_trie[ty].ok
    /\ given = <<>>
    /\ found = NoFound
    /\ tokens \in Streams
    /\ pos = 0
    /\ frames = <<NewFrame("Cli")>>
    /\ converted = <<>>
    /\ result = <<>>

Next ==
    \/ ParseHead
    \/ FieldRequired
    \/ FieldOptional
    \/ FieldRestRequired
    \/ FieldRestOptional
    \/ TrailingCheck
    \/ SubcommandReturn
    \/ ParseReturn

Spec == Init /\ [][Next]_vars

\* Command::parse runs on the thread of its caller, from its first statement
\* to its return: a step that can be taken is taken
FairSpec == Spec /\ WF_vars(Next)

----------------------------------------------------------------------------
(* CommandPath: the blanket impl for id types (docbot/lib.rs) and the path   *)
(* type generated for a command set with a subcommand (bits/path.rs)         *)

\* PathParseError: Incomplete, BadId and Trailing
PathIncomplete(available) == [tag |-> "Incomplete", available |-> available]
PathBadId(e) == [tag |-> "BadId", id_err |-> e]
PathTrailing(extra) == [tag |-> "Trailing", extra |-> extra]
NoPathError == [tag |-> "none"]

\* the error bits/path.rs:131 names PathParseError::NoInput, for an iterator
\* that "returned None immediately": the variant docbot/lib.rs declares for
\* it is Incomplete, with the names of the set
PathNoInput(ty) == PathIncomplete(names(commands[ty]))

\* a path: the id type itself when the set has no subcommand (sub = FALSE,
\* inner = <<>>), else the variant with, for a subcommand, the boxed nested
\* path: inner = <<>> is None, inner = <<p>> is Some(p)
PathOf(ty, id, sub, inner) == [ty |-> ty, id |-> id, sub |-> sub, inner |-> inner]
NoPath == PathOf("", NoId, FALSE, <<>>)

\* Result<Path, PathParseError> and Result<Option<Path>, PathParseError>
PathOk(p) == [ok |-> TRUE, val |-> p, err |-> NoPathError]
PathErr(e) == [ok |-> FALSE, val |-> NoPath, err |-> e]
OptOk(o) == [ok |-> TRUE, val |-> o, err |-> NoPathError]
OptErr(e) == [ok |-> FALSE, val |-> <<>>, err |-> e]

\* a run of CommandPath::parse: what it returned (out), the tokens it took
\* from the iterator (pos), the positions of the tokens it handed to FromStr
\* (converted), the last of them and the answer (given, found), and the
\* nested calls of parse_opt it is in (depth) and has been in at most (deepest)
PathRun(st, out) == [st EXCEPT !.out = out]
PathStart ==
    [out |-> PathErr(NoPathError), pos |-> 0, converted |-> <<>>,
     given |-> given, found |-> found, depth |-> 0, deepest |-> 0]

\* `.parse()` of the token after position st.pos: the token is taken and
\* handed to FromStr of the id type of `ty`
take_and_parse(ty, toks, st) ==
    [st EXCEPT !.pos = @ + 1,
               !.converted = Append(@, st.pos + 1),
               !.given = toks[st.pos + 1],
               !.found = from_str(commands[ty], id_trie[ty], toks[st.pos + 1])]

\* a parse of the id type that reports the head token as the trailing one
id_path_parse_head_extra(ty, toks, st) ==
    IF st.pos >= Len(toks) THEN PathRun(st, PathErr(PathIncomplete(names(commands[ty]))))
    ELSE IF st.pos + 2 <= Len(toks)
    THEN PathRun([st EXCEPT !.pos = @ + 2], PathErr(PathTrailing(toks[st.pos + 1])))
    ELSE LET t == take_and_parse(ty, toks, st)
         IN PathRun(t, IF t.found.ok THEN PathOk(PathOf(ty, t.found.id, FALSE, <<>>))
                       ELSE PathErr(PathBadId(t.found.err)))

\* impl<T: CommandId> CommandPath for T :: parse: take the head, take the
\* token after it and return Trailing if there is one, else look the head up
id_path_parse(ty, toks, st) ==
    IF st.pos >= Len(toks) THEN PathRun(st, PathErr(PathIncomplete(names(commands[ty]))))
    ELSE IF st.pos + 2 <= Len(toks)
    THEN PathRun([st EXCEPT !.pos = @ + 2], PathErr(PathTrailing(toks[st.pos + 2])))
    ELSE LET t == take_and_parse(ty, toks, st)
         IN PathRun(t, IF t.found.ok THEN PathOk(PathOf(ty, t.found.id, FALSE, <<>>))
                       ELSE PathErr(PathBadId(t.found.err)))

\* the match of CommandPath::parse_opt on the result of parse:
\* `PathParseError::Incomplete(_) => Ok(None), e => Err(e)`
parse_opt_of(r) ==
    IF r.ok THEN OptOk(<<r.val>>)
    ELSE IF r.err.tag = "Incomplete" THEN OptOk(<<>>)
    ELSE OptErr(r.err)

RECURSIVE CommandPath_parse(_, _, _)

\* a parse_opt that answers None for every error
parse_opt_lenient(ty, toks, st) ==
    LET run == CommandPath_parse(ty, toks, st)
    IN PathRun(run, IF run.out.ok THEN OptOk(<<run.out.val>>) ELSE OptOk(<<>>))

\* CommandPath::parse_opt: parse, then the match on its result
parse_opt(ty, toks, st) ==
    LET run == CommandPath_parse(ty, toks, st)
    IN PathRun(run, parse_opt_of(run.out))

\* the call `::docbot::CommandPath::parse_opt(__iter)` of parse_inner, on the
\* iterator the head was taken from
nested_parse_opt(ty, toks, st) ==
    LET run == parse_opt(ty, toks,
                         [st EXCEPT !.depth = @ + 1,
                                    !.deepest = IF st.depth + 1 > @ THEN st.depth + 1 ELSE @])
    IN [run EXCEPT !.depth = st.depth]

\* a generated parse that hands the remaining tokens to parse of the nested
\* path type
generated_path_parse_nested_parse(ty, toks, st) ==
    IF st.pos >= Len(toks) THEN PathRun(st, PathErr(PathNoInput(ty)))
    ELSE LET t == take_and_parse(ty, toks, st)
         IN IF ~t.found.ok THEN PathRun(t, PathErr(PathBadId(t.found.err)))
            ELSE IF commands[ty][t.found.id].sub = ""
            THEN PathRun(t, PathOk(PathOf(ty, t.found.id, FALSE, <<>>)))
            ELSE LET run == CommandPath_parse(commands[ty][t.found.id].sub, toks, t)
                 IN PathRun(run, IF run.out.ok
                                 THEN PathOk(PathOf(ty, t.found.id, TRUE, <<run.out.val>>))
                                 ELSE PathErr(run.out.err))

\* CommandPath::parse of the path type generated for a set with a subcommand
\* (bits/path.rs emit): take the head and look it up; the arm of a command
\* that is no subcommand is the variant, and reads no further; the arm of a
\* subcommand is the variant around parse_opt of the nested path type
generated_path_parse(ty, toks, st) ==
    IF st.pos >= Len(toks) THEN PathRun(st, PathErr(PathNoInput(ty)))
    ELSE LET t == take_and_parse(ty, toks, st)
         IN IF ~t.found.ok THEN PathRun(t, PathErr(PathBadId(t.found.err)))
            ELSE IF commands[ty][t.found.id].sub = ""
            THEN PathRun(t, PathOk(PathOf(ty, t.found.id, FALSE, <<>>)))
            ELSE LET run == nested_parse_opt(commands[ty][t.found.id].sub, toks, t)
                 IN PathRun(run, IF run.out.ok
                                 THEN PathOk(PathOf(ty, t.found.id, TRUE, run.out.val))
                                 ELSE PathErr(run.out.err))

\* <ty as Command>::Path::parse: of the id type, or of the generated type
CommandPath_parse(ty, toks, st) ==
    IF Command_Path(commands[ty]) = "Id"
    THEN id_path_parse(ty, toks, st)
    ELSE generated_path_parse(ty, toks, st)

\* CommandPath::head
head(p) == p.id

----------------------------------------------------------------------------
(* Specification SpecPath: CommandPath::parse and parse_opt of the derived   *)
(* program on a token stream                                                 *)

\* a call that returned: the function, the type it was called on, the
\* deepest nesting of calls of parse_opt within it
PathCall(fn, ty, deepest) == [fn |-> fn, ty |-> ty, deepest |-> deepest]

\* the programs of SpecPath: Cli without fields or with a rest field, Sub
\* with and without the subcommand
PathShapes == {sh \in Shapes : sh.req = 0 /\ sh.opt = 0}
PathPrograms == {DerivedProgram(sh, nested) : sh \in PathShapes, nested \in BOOLEAN}

\* a program after the derive has run on each of its types, and a token
\* stream
InitPath ==
    /\ commands \in PathPrograms
    /\ stage = "built"
    /\ id_trie \in Commands_new(commands)
    /\ \A ty \in DOMAIN commands : id_trie[ty].ok
    /\ given = <<>>
    /\ found = NoFound
    /\ tokens \in Streams
    /\ pos = 0
    /\ frames = <<>>
    /\ converted = <<>>
    /\ result = <<>>

\* what a run leaves behind
PathReturns(fn, ty, run) ==
    /\ frames' = <<PathCall(fn, ty, run.deepest)>>
    /\ result' = <<run.out>>
    /\ pos' = run.pos
    /\ converted' = run.converted
    /\ given' = run.given
    /\ found' = run.found

\* <ty as Command>::Path::parse(tokens)
PathParse(ty) ==
    /\ stage = "built"
    /\ frames = <<>>
    /\ PathReturns("parse", ty, CommandPath_parse(ty, tokens, PathStart))
    /\ UNCHANGED <<commands, stage, id_trie, tokens>>

\* <ty as Command>::Path::parse_opt(tokens)
PathParseOpt(ty) ==
    /\ stage = "built"
    /\ frames = <<>>
    /\ PathReturns("parse_opt", ty, parse_opt(ty, tokens, PathStart))
    /\ UNCHANGED <<commands, stage, id_trie, tokens>>

NextPath ==
    \/ \E ty \in DOMAIN commands : PathParse(ty)
    \/ \E ty \in DOMAIN commands : PathParseOpt(ty)

SpecPath == InitPath /\ [][NextPath]_vars

----------------------------------------------------------------------------
(* Help (bits/help.rs) and From<Id> for the path type (bits/path.rs)         *)

\* the types of the derived program that are structs (Commands::Struct);
\* the others are enums (Commands::Enum)
Structs == {"Leaf"}

\* ::docbot::ArgumentUsage
ArgumentUsage(name, is_required, is_rest) ==
    [name |-> name, is_required |-> is_required, is_rest |-> is_rest]

\* an emit_usage that lists the optional arguments first
emit_usage_optional_first(cmd) ==
    [ids |-> cmd.ids,
     args |-> [i \in 1..Len(cmd.optional) |-> ArgumentUsage(cmd.optional[i], FALSE, FALSE)]
              \o [i \in 1..Len(cmd.required) |-> ArgumentUsage(cmd.required[i], TRUE, FALSE)]
              \o (CASE cmd.rest.kind = "None" -> <<>>
                    [] cmd.rest.kind = "Optional" -> <<ArgumentUsage(cmd.rest.name, FALSE, TRUE)>>
                    [] cmd.rest.kind = "Required" -> <<ArgumentUsage(cmd.rest.name, TRUE, TRUE)>>)]

\* emit_usage: the CommandUsage literal of a command (the description text
\* of the doc comment is not part of the derive input modelled here)
emit_usage(cmd) ==
    [ids |-> cmd.ids,
     args |-> [i \in 1..Len(cmd.required) |-> ArgumentUsage(cmd.required[i], TRUE, FALSE)]
              \o [i \in 1..Len(cmd.optional) |-> ArgumentUsage(cmd.optional[i], FALSE, FALSE)]
              \o (CASE cmd.rest.kind = "None" -> <<>>
                    [] cmd.rest.kind = "Optional" -> <<ArgumentUsage(cmd.rest.name, FALSE, TRUE)>>
                    [] cmd.rest.kind = "Required" -> <<ArgumentUsage(cmd.rest.name, TRUE, TRUE)>>)]

\* HelpTopic::Command and HelpTopic::CommandSet
HelpCommand(usage) == [kind |-> "Command", usages |-> <<usage>>]
HelpCommandSet(usages) == [kind |-> "CommandSet", usages |-> usages]
NoTopic == [kind |-> "none", usages |-> <<>>]

\* the static __GENERAL of a type
general_help(ty) ==
    IF ty \in Structs
    THEN HelpCommand(emit_usage(commands[ty][1]))
    ELSE HelpCommandSet([i \in 1..Len(commands[ty]) |-> emit_usage(commands[ty][i])])

\* Help::help: topic = <<>> is None, topic = <<p>> is Some(p); the arm of a
\* subcommand hands the nested path to the nested type (get_topic_pats)
RECURSIVE help(_, _)
help(ty, topic) ==
    IF topic = <<>> THEN general_help(ty)
    ELSE LET cmd == commands[ty][topic[1].id]
         IN IF cmd.sub # "" THEN help(cmd.sub, topic[1].inner)
            ELSE IF ty \in Structs THEN general_help(ty)
            ELSE HelpCommand(emit_usage(cmd))

\* Path::from(id): the identity when the path type is the id type, todo!()
\* in the impl generated for a path type
Path_from(ty, id) ==
    IF Command_Path(commands[ty]) = "Id"
    THEN [panic |-> FALSE, val |-> PathOf(ty, id, FALSE, <<>>)]
    ELSE [panic |-> TRUE, val |-> NoPath]

----------------------------------------------------------------------------
(* Specification SpecHelp: calls of Help::help on the derived program        *)

\* a call of help: the way the topic was given, the type, the id or path
HelpCall(fn, ty, id, path) == [fn |-> fn, ty |-> ty, id |-> id, path |-> path]
HelpReturn(t) == [panic |-> FALSE, topic |-> t]
HelpPanic == [panic |-> TRUE, topic |-> NoTopic]

\* the values of the path type generated for `ty`, down to n levels
RECURSIVE PathValues(_, _)
PathValues(ty, n) ==
    IF n = 0 THEN {}
    ELSE UNION {IF commands[ty][id].sub = ""
                THEN {PathOf(ty, id, FALSE, <<>>)}
                ELSE {PathOf(ty, id, TRUE, <<>>)}
                     \cup {PathOf(ty, id, TRUE, <<p>>) : p \in PathValues(commands[ty][id].sub, n - 1)} :
                  id \in 1..Len(commands[ty])}

\* a program after the derive has run on each of its types
InitHelp ==
    /\ commands \in Programs
    /\ stage = "built"
    /\ id_trie \in Commands_new(commands)
    /\ \A ty \in DOMAIN commands : id_trie[ty].ok
    /\ given = <<>>
    /\ found = NoFound
    /\ tokens = <<>>
    /\ pos = 0
    /\ frames = <<>>
    /\ converted = <<>>
    /\ result = <<>>

\* the call and what it returned join the calls made so far
HelpReturns(call, ret) ==
    /\ stage = "built"
    /\ Len(frames) < MaxCalls
    /\ frames' = Append(frames, call)
    /\ result' = Append(result, ret)
    /\ UNCHANGED <<commands, stage, id_trie, given, found, tokens, pos, converted>>

\* a help that answers None with the topic it returned last
HelpNone_last_topic(ty) ==
    HelpReturns(HelpCall("none", ty, NoId, NoPath),
                IF result = <<>> THEN HelpReturn(help(ty, <<>>)) ELSE result[Len(result)])

\* <ty as Help>::help(None)
HelpNone(ty) ==
    HelpReturns(HelpCall("none", ty, NoId, NoPath), HelpReturn(help(ty, <<>>)))

\* <ty as Help>::help(Some(Path::from(id)))
HelpFromId(ty, id) ==
    HelpReturns(HelpCall("from", ty, id, NoPath),
                IF Path_from(ty, id).panic
                THEN HelpPanic
                ELSE HelpReturn(help(ty, <<Path_from(ty, id).val>>)))

\* <ty as Help>::help(Some(p)) for a value p of a generated path type (a
\* value of an id type is the id, and the call is HelpFromId)
HelpPath(ty, p) ==
    /\ Command_Path(commands[ty]) = "Path"
    /\ HelpReturns(HelpCall("path", ty, p.id, p), HelpReturn(help(ty, <<p>>)))

NextHelp ==
    \/ \E ty \in DOMAIN commands : HelpNone(ty)
    \/ \E ty \in DOMAIN commands : \E id \in 1..Len(commands[ty]) : HelpFromId(ty, id)
    \/ \E ty \in DOMAIN commands : \E p \in PathValues(ty, MaxDepth) : HelpPath(ty, p)

SpecHelp == InitHelp /\ [][NextHelp]_vars

----------------------------------------------------------------------------
(* The usage line of a doc comment: parse_usage_desc (docs.rs)               *)

\* the line break, written as one character of the model
NL == "newline"

\* \s on the characters of the model, and the first position >= i of `s`
\* that holds no whitespace (Len(s) + 1 if there is none)
IsSpace(c) == c \in {" ", NL}
RECURSIVE SkipSpace(_, _)
SkipSpace(s, i) == IF i <= Len(s) /\ IsSpace(s[i]) THEN SkipSpace(s, i + 1) ELSE i

\* the first position >= i of `s` that holds the character c, 0 if none
RECURSIVE FirstAt(_, _, _)
FirstAt(s, c, i) ==
    IF i > Len(s) THEN 0 ELSE IF s[i] = c THEN i ELSE FirstAt(s, c, i + 1)

\* the text of `s` from position i on
From(s, i) == SubSeq(s, i, Len(s))

\* a regex match: whether it matched, its captures, the position after it
NoMatchAt == [ok |-> FALSE, cap |-> <<>>, alt |-> 0, end |-> 0]
MatchAt(cap, alt, end) == [ok |-> TRUE, cap |-> cap, alt |-> alt, end |-> end]

\* the backtick character, which a TLA+ string cannot hold
Backtick == "backtick"

\* the positions j > i where a closing backtick may stand: `s[j]` is a
\* backtick and the text between is made of non-backticks and doubled
\* backticks
RECURSIVE BacktickBody(_)
BacktickBody(t) ==
    IF t = <<>> THEN TRUE
    ELSE IF t[1] # Backtick THEN BacktickBody(Tail(t))
    ELSE Len(t) >= 2 /\ t[2] = Backtick /\ BacktickBody(Tail(Tail(t)))

\* `.` matches every character but the line break
IsDot(c) == c # NL

\* the length of the run of characters `.` matches that starts at i
RECURSIVE RunOfDot(_, _)
RunOfDot(s, i) == IF i <= Len(s) /\ IsDot(s[i]) THEN 1 + RunOfDot(s, i + 1) ELSE 0

\* USAGE_SPLIT_RE = ^\s*`((?:[^`]|``)*)`(?:\s*:)?\s*(.*)\s*$ : capture 1, the
\* usage between the backticks (greedy), and capture 2, the description:
\* the characters up to the first line break (greedy), which only
\* whitespace may follow up to the end of the text
USAGE_SPLIT_RE(par) ==
    LET open == SkipSpace(par, 1)
    IN IF open > Len(par) \/ par[open] # Backtick THEN NoMatchAt
       ELSE LET closes == {j \in (open + 1)..Len(par) :
                              par[j] = Backtick /\ BacktickBody(SubSeq(par, open + 1, j - 1))}
            IN IF closes = {} THEN NoMatchAt
               ELSE LET close == CHOOSE j \in closes : \A k \in closes : k <= j
                        colon == SkipSpace(par, close + 1)
                        after == IF colon <= Len(par) /\ par[colon] = ":"
                                 THEN colon + 1 ELSE close + 1
                        desc == SkipSpace(par, after)
                        stop == desc + RunOfDot(par, desc)
                    IN IF SkipSpace(par, stop) <= Len(par) THEN NoMatchAt
                       ELSE MatchAt(<<SubSeq(par, open + 1, close - 1),
                                      SubSeq(par, desc, stop - 1)>>, 1, Len(par) + 1)

\* the end of the run of non-whitespace characters that starts at i
RECURSIVE SkipWord(_, _)
SkipWord(s, i) == IF i <= Len(s) /\ ~IsSpace(s[i]) THEN SkipWord(s, i + 1) ELSE i

\* COMMAND_IDS_RE = ^\s*(?:([^\(]\S*)|\(\s*([^\)]*)\)) with k characters of
\* whitespace skipped; the regex tries the longest skip first
RECURSIVE COMMAND_IDS_RE_from(_, _)
COMMAND_IDS_RE_from(s, k) ==
    LET at == k + 1
        word == IF at <= Len(s) /\ s[at] # "("
                THEN MatchAt(<<SubSeq(s, at, SkipWord(s, at + 1) - 1)>>, 1, SkipWord(s, at + 1))
                ELSE NoMatchAt
        close == IF at <= Len(s) /\ s[at] = "(" THEN FirstAt(s, ")", at + 1) ELSE 0
        group == IF close # 0
                 THEN MatchAt(<<SubSeq(s, SkipSpace(SubSeq(s, 1, close - 1), at + 1), close - 1)>>,
                              2, close + 1)
                 ELSE NoMatchAt
    IN IF word.ok THEN word
       ELSE IF group.ok THEN group
       ELSE IF k = 0 THEN NoMatchAt
       ELSE COMMAND_IDS_RE_from(s, k - 1)

COMMAND_IDS_RE(s) == COMMAND_IDS_RE_from(s, SkipSpace(s, 1) - 1)

\* drop the whitespace at the end of `s`
RECURSIVE TrimEnd(_)
TrimEnd(s) == IF s # <<>> /\ IsSpace(s[Len(s)]) THEN TrimEnd(SubSeq(s, 1, Len(s) - 1)) ELSE s

\* PIPE_RE.split: cut `s` at every `|` together with the whitespace around it
RECURSIVE PIPE_RE_split(_)
PIPE_RE_split(s) ==
    LET bar == FirstAt(s, "|", 1)
    IN IF bar = 0 THEN <<s>>
       ELSE <<TrimEnd(SubSeq(s, 1, bar - 1))>>
            \o PIPE_RE_split(From(s, SkipSpace(s, bar + 1)))

\* the name of a `<name>` or `[name]` token is taken when it has at most 2
\* characters or when none of its last 3 characters is a period
NameAccepted(name) ==
    \/ Len(name) <= 2
    \/ \A t \in (Len(name) - 2)..Len(name) : name[t] # "."

\* ^\s*<open>(<name>{0,2}|<name>*[^<close>\.]{3})<close> on `s`: the shape
\* shared by REQUIRED_ARG_RE and OPTIONAL_ARG_RE
ARG_RE(s, open, close) ==
    LET at == SkipSpace(s, 1)
        end == IF at <= Len(s) /\ s[at] = open THEN FirstAt(s, close, at + 1) ELSE 0
    IN IF end # 0 /\ NameAccepted(SubSeq(s, at + 1, end - 1))
       THEN MatchAt(<<SubSeq(s, at + 1, end - 1)>>, 1, end + 1)
       ELSE NoMatchAt

\* REQUIRED_ARG_RE = ^\s*<([^>]{0,2}|[^>]*[^>\.]{3})>
REQUIRED_ARG_RE(s) == ARG_RE(s, "<", ">")

\* OPTIONAL_ARG_RE = ^\s*\[([^\]]{0,2}|[^\]]*[^\]\.]{3})\]
OPTIONAL_ARG_RE(s) == ARG_RE(s, "[", "]")

\* the length of the run of characters other than c that starts at i
RECURSIVE RunOfNot(_, _, _)
RunOfNot(s, c, i) == IF i <= Len(s) /\ s[i] # c THEN 1 + RunOfNot(s, c, i + 1) ELSE 0

\* one alternative of REST_ARG_RE, <open>([^<close>]+)...<close> : a name of
\* one or more characters, greedy, then three characters `.` matches (any
\* but the line break), then close
REST_ARG_alt(s, open, close, alt) ==
    LET at == SkipSpace(s, 1)
        lens == IF at <= Len(s) /\ s[at] = open
                THEN {n \in 1..RunOfNot(s, close, at + 1) :
                         /\ at + n + 4 <= Len(s) /\ s[at + n + 4] = close
                         /\ \A k \in 1..3 : IsDot(s[at + n + k])}
                ELSE {}
    IN IF lens = {} THEN NoMatchAt
       ELSE LET n == CHOOSE m \in lens : \A k \in lens : k <= m
            IN MatchAt(<<SubSeq(s, at + 1, at + n)>>, alt, at + n + 5)

\* REST_ARG_RE = ^\s*(?:<([^>]+)...>|\[([^\]]+)...\])
REST_ARG_RE(s) ==
    IF REST_ARG_alt(s, "<", ">", 1).ok THEN REST_ARG_alt(s, "<", ">", 1)
    ELSE REST_ARG_alt(s, "[", "]", 2)

\* TRAILING_RE = \S
TRAILING_RE(s) == \E i \in 1..Len(s) : ~IsSpace(s[i])

\* a `while let Some(m) = RE.captures(usage)` loop of parse_usage_desc for
\* the tokens opened by `open`: the names taken and the text left
RECURSIVE take_args(_, _, _, _)
take_args(usage, open, close, acc) ==
    LET m == ARG_RE(usage, open, close)
    IN IF m.ok THEN take_args(From(usage, m.end), open, close, Append(acc, m.cap[1]))
       ELSE [names |-> acc, usage |-> usage]

\* Result<CommandUsage>
UsageOk(ids, required, optional, r, desc) ==
    [ok |-> TRUE, err |-> "", left |-> <<>>,
     ids |-> ids, required |-> required, optional |-> optional, rest |-> r, desc |-> desc]
UsageErr(err, left) ==
    [ok |-> FALSE, err |-> err, left |-> left,
     ids |-> <<>>, required |-> <<>>, optional |-> <<>>, rest |-> RestNone, desc |-> <<>>]

\* parse_usage_desc
parse_usage_desc(par) ==
    LET caps == USAGE_SPLIT_RE(par)
    IN IF ~caps.ok THEN UsageErr("Invalid usage paragraph", <<>>)
       ELSE LET ids_match == COMMAND_IDS_RE(caps.cap[1])
            IN IF ~ids_match.ok THEN UsageErr("invalid command ID specifier", <<>>)
               ELSE LET ids == IF ids_match.alt = 2
                               THEN PIPE_RE_split(ids_match.cap[1])
                               ELSE <<ids_match.cap[1]>>
                        req == take_args(From(caps.cap[1], ids_match.end), "<", ">", <<>>)
                        opt == take_args(req.usage, "[", "]", <<>>)
                        m == REST_ARG_RE(opt.usage)
                        r == IF ~m.ok THEN RestNone
                             ELSE IF m.alt = 2 THEN RestOptional(m.cap[1])
                             ELSE RestRequired(m.cap[1])
                        left == IF m.ok THEN From(opt.usage, m.end) ELSE opt.usage
                    IN IF TRAILING_RE(left) THEN UsageErr("trailing string", left)
                       ELSE UsageOk(ids, req.names, opt.names, r, caps.cap[2])

----------------------------------------------------------------------------
(* Specification SpecUsage: parse_usage_desc on usage paragraphs             *)

\* a usage token: its kind, its name and its text
UsageToken(kind, name) ==
    [kind |-> kind, name |-> name,
     text |-> CASE kind = "required" -> <<"<">> \o name \o <<">">>
                [] kind = "optional" -> <<"[">> \o name \o <<"]">>
                [] kind = "rest_required" -> <<"<">> \o name \o <<".", ".", ".", ">">>
                [] kind = "rest_optional" -> <<"[">> \o name \o <<".", ".", ".", "]">>
                [] kind = "other" -> name]

\* the names written in the tokens
NamePool ==
    {<<"a">>, <<"a", ".">>, <<"a", "b", ".">>, <<"a", ".", "b", "c">>, <<"a", "b", "c", "d">>}

TokenPool ==
    {UsageToken(k, n) : k \in {"required", "optional"}, n \in NamePool}
    \cup {UsageToken(k, <<"n">>) : k \in {"rest_required", "rest_optional"}}
    \cup {UsageToken("other", <<"x">>)}

\* the id clauses and their ids
IdClauses ==
    {[text |-> <<"c">>, ids |-> <<<<"c">>>>],
     [text |-> <<"(", "c", " ", "|", "d", ")">>, ids |-> <<<<"c">>, <<"d">>>>]}

\* the paragraph written for an id clause and a sequence of tokens, the
\* tokens separated by `sep`
Paragraph(clause, toks, sep) ==
    <<Backtick>> \o clause.text \o Flatten([i \in 1..Len(toks) |-> sep \o toks[i].text]) \o <<Backtick>>

\* `commands` holds what the usage line was composed of, `given` its text
InitUsage ==
    /\ commands \in {[clause |-> c, toks |-> ts, sep |-> sp] :
                        c \in IdClauses, ts \in SeqsUpTo(TokenPool, MaxTokens),
                        sp \in {<<>>, <<" ">>}}
    /\ given = Paragraph(commands.clause, commands.toks, commands.sep)
    /\ stage = "declared"
    /\ id_trie = <<>>
    /\ found = NoFound
    /\ tokens = <<>>
    /\ pos = 0
    /\ frames = <<>>
    /\ converted = <<>>
    /\ result = <<>>

\* CommandDocs::parse_docs hands the first paragraph to parse_usage_desc
ParseUsageDesc ==
    /\ result = <<>>
    /\ result' = <<parse_usage_desc(given)>>
    /\ UNCHANGED <<commands, stage, id_trie, given, found, tokens, pos, frames, converted>>

NextUsage == ParseUsageDesc

SpecUsage == InitUsage /\ [][NextUsage]_vars

----------------------------------------------------------------------------
(* The arguments section of a doc comment: parse_argument_lines (docs.rs)    *)

\* str::trim
RECURSIVE TrimStart(_)
TrimStart(s) == IF s # <<>> /\ IsSpace(s[1]) THEN TrimStart(Tail(s)) ELSE s
trim(s) == TrimEnd(TrimStart(s))

\* LINE_RE.replace_all(_, " "): a run of whitespace that holds a line break
\* becomes one blank, any other character is kept
RECURSIVE LINE_RE_replace_all(_)
LINE_RE_replace_all(s) ==
    IF s = <<>> THEN <<>>
    ELSE IF ~IsSpace(s[1]) THEN <<s[1]>> \o LINE_RE_replace_all(Tail(s))
    ELSE LET after == SkipSpace(s, 1)
             run == SubSeq(s, 1, after - 1)
         IN (IF NL \in Range(run) THEN <<" ">> ELSE run)
            \o LINE_RE_replace_all(From(s, after))

\* relax_lines
relax_lines(s) == LINE_RE_replace_all(trim(s))

\* the last position in c..(e - 1) of `s` that holds no whitespace, where
\* s[c] holds none
RECURSIVE LastNonSpace(_, _, _)
LastNonSpace(s, c, e) ==
    IF e - 1 > c /\ IsSpace(s[e - 1]) THEN LastNonSpace(s, c, e - 1) ELSE e - 1

\* the first position >= i of `s` that holds a colon or a line break,
\* Len(s) + 1 if there is none
RECURSIVE NameStop(_, _)
NameStop(s, i) ==
    IF i > Len(s) \/ s[i] \in {":", NL} THEN i ELSE NameStop(s, i + 1)

\* a match of ARGUMENT_RE
NoArgumentMatch == [ok |-> FALSE, start |-> 0, name |-> <<>>, end |-> 0]

\* ARGUMENT_RE anchored at the line start st of `s`
ARGUMENT_RE_at(s, st) ==
    LET c == SkipSpace(s, st)
    IN IF c > Len(s) THEN NoArgumentMatch
       ELSE LET k == LastNonSpace(s, c, NameStop(s, c + 1))
                j == SkipSpace(s, k + 1)
            IN IF j <= Len(s) /\ s[j] = ":"
               THEN [ok |-> TRUE, start |-> st, name |-> SubSeq(s, c, k),
                     end |-> SkipSpace(s, j + 1)]
               ELSE NoArgumentMatch

\* the leftmost match of ARGUMENT_RE in `s` that starts at position p or
\* later: ^ matches at the start of the text and after every line break
RECURSIVE ARGUMENT_RE_from(_, _)
ARGUMENT_RE_from(s, p) ==
    IF p > Len(s) THEN NoArgumentMatch
    ELSE IF (p = 1 \/ s[p - 1] = NL) /\ ARGUMENT_RE_at(s, p).ok THEN ARGUMENT_RE_at(s, p)
    ELSE ARGUMENT_RE_from(s, p + 1)

\* ARGUMENT_RE.captures_iter(s).collect()
RECURSIVE captures_iter(_, _)
captures_iter(s, p) ==
    LET m == ARGUMENT_RE_from(s, p)
    IN IF m.ok THEN <<m>> \o captures_iter(s, m.end) ELSE <<>>

\* Result<Vec<(String, bool, String)>>, or the panic of a failed unwrap
ArgsOk(args) == [ok |-> TRUE, panic |-> FALSE, err |-> "", args |-> args]
ArgsErr(err) == [ok |-> FALSE, panic |-> FALSE, err |-> err, args |-> <<>>]
ArgsPanic == [ok |-> FALSE, panic |-> TRUE, err |-> "", args |-> <<>>]

\* the loop over the matches: the HashMap of the descriptions, as the
\* sequence of its (key, value) entries, or the duplicate key
RECURSIVE collect_args(_, _, _, _)
collect_args(s, matches, i, args) ==
    IF i > Len(matches) THEN [dup |-> FALSE, args |-> args]
    ELSE LET end == IF i + 1 <= Len(matches) THEN matches[i + 1].start ELSE Len(s) + 1
             key == matches[i].name
         IN IF \E e \in Range(args) : e[1] = key
            THEN [dup |-> TRUE, args |-> args]
            ELSE collect_args(s, matches, i + 1,
                     Append(args, <<key, relax_lines(SubSeq(s, matches[i].end, end - 1))>>))

\* expected_args
expected_args(usage) ==
    [i \in 1..Len(usage.required) |-> <<usage.required[i], TRUE>>]
    \o [i \in 1..Len(usage.optional) |-> <<usage.optional[i], FALSE>>]
    \o (CASE usage.rest.kind = "None" -> <<>>
          [] usage.rest.kind = "Optional" -> <<<<usage.rest.name, FALSE>>>>
          [] usage.rest.kind = "Required" -> <<<<usage.rest.name, TRUE>>>>)

\* HashMap::remove_entry
remove_entry(args, key) == SelectSeq(args, LAMBDA e : e[1] # key)

\* the reordering: every expected argument takes its entry out of the map
RECURSIVE reorder(_, _, _)
reorder(expected, args, acc) ==
    IF expected = <<>> THEN ArgsOk(acc)
    ELSE LET arg == expected[1][1]
             hit == SelectSeq(args, LAMBDA e : e[1] = arg)
         IN IF hit = <<>> THEN ArgsPanic
            ELSE reorder(Tail(expected), remove_entry(args, arg),
                         Append(acc, <<arg, expected[1][2], hit[1][2]>>))

\* parse_argument_lines
parse_argument_lines(usage, s) ==
    LET collected == collect_args(s, captures_iter(s, 1), 1, <<>>)
        args == collected.args
        expected == expected_args(usage)
    IN IF collected.dup THEN ArgsErr("duplicate argument description")
       ELSE IF s # <<>> /\ args = <<>> THEN ArgsErr("unexpected argument description format")
       ELSE IF \E i \in 1..Len(expected) : ~\E e \in Range(args) : e[1] = expected[i][1]
            THEN ArgsErr("missing documentation for argument")
       ELSE IF Len(args) # Len(expected)
            THEN ArgsErr("mismatched number of argument descriptions")
       ELSE reorder(expected, args, <<>>)

----------------------------------------------------------------------------
(* Specification SpecArgs: parse_argument_lines on arguments sections        *)

\* the argument names of the usage lines and the lines of the sections
ArgNames == {<<"a">>, <<"b">>}

LinePool ==
    {<<" ", "a", ":", " ", "x">>,
     <<" ", "b", ":", " ", "y">>,
     <<" ", "x", " ", "y">>,
     <<"b", " ", ":">>}

\* the usages: required and optional names, MaxDocArgs of them at most, and
\* a rest argument or none
DocUsages ==
    {[required |-> r, optional |-> o, rest |-> t] :
        r \in SeqsUpTo(ArgNames, MaxDocArgs),
        o \in SeqsUpTo(ArgNames, MaxDocArgs),
        t \in {RestNone, RestOptional(<<"b">>), RestRequired(<<"b">>), RestRequired(<<"a">>)}}

\* the text of a section: every line of the paragraph ends in a line break
SectionText(lines) == Flatten([i \in 1..Len(lines) |-> lines[i] \o <<NL>>])

\* `commands` holds the usage and the lines of the section, `given` its text
InitArgs ==
    /\ commands \in {[usage |-> u, lines |-> ls] :
                        u \in {d \in DocUsages : Len(d.required) + Len(d.optional) <= MaxDocArgs},
                        ls \in SeqsUpTo(LinePool, MaxLines)}
    /\ given = SectionText(commands.lines)
    /\ stage = "declared"
    /\ id_trie = <<>>
    /\ found = NoFound
    /\ tokens = <<>>
    /\ pos = 0
    /\ frames = <<>>
    /\ converted = <<>>
    /\ result = <<>>

\* CommandDocs::parse_docs hands the text under the arguments header, or
\* the empty text if there is no such section, to parse_argument_lines
ParseArgumentLines ==
    /\ result = <<>>
    /\ result' = <<parse_argument_lines(commands.usage, given)>>
    /\ UNCHANGED <<commands, stage, id_trie, given, found, tokens, pos, frames, converted>>

NextArgs == ParseArgumentLines

SpecArgs == InitArgs /\ [][NextArgs]_vars

----------------------------------------------------------------------------
(* The doc comment of a command: CommandDocs::parse_docs (docs.rs)           *)

\* take_paragraph: the lines up to the first blank line, which is taken
\* too; `some` is false if no line came before it
RECURSIVE take_paragraph_loop(_, _, _, _)
take_paragraph_loop(docs, preserve_lines, ret, taken) ==
    IF docs = <<>> THEN [some |-> taken, par |-> ret, docs |-> docs]
    ELSE LET string == Head(docs)
             trimmed == trim(string)
         IN IF trimmed = <<>> THEN [some |-> taken, par |-> ret, docs |-> Tail(docs)]
            ELSE take_paragraph_loop(Tail(docs), preserve_lines,
                     IF preserve_lines THEN ret \o string \o <<NL>>
                     ELSE (IF ret # <<>> THEN ret \o <<" ">> ELSE ret) \o trimmed,
                     TRUE)
take_paragraph(docs, preserve_lines) == take_paragraph_loop(docs, preserve_lines, <<>>, FALSE)

\* the last position of the whitespace run s[i..] that holds a line break,
\* 0 if the run holds none
RECURSIVE LastBreak(_, _, _)
LastBreak(s, i, last) ==
    IF i <= Len(s) /\ IsSpace(s[i])
    THEN LastBreak(s, i + 1, IF s[i] = NL THEN i ELSE last)
    ELSE last

\* HEADER_RE: the header word and the position after the match
HEADER_RE(par) ==
    LET hash == SkipSpace(par, 1)
        word == SkipSpace(par, hash + 1)
        stop == SkipWord(par, word)
        break == LastBreak(par, stop, 0)
    IN IF hash <= Len(par) /\ par[hash] = "#" /\ word <= Len(par) /\ break > 0
       THEN MatchAt(<<SubSeq(par, word, stop - 1)>>, 1, break + 1)
       ELSE NoMatchAt

\* Result<CommandDocs>, or the panic of parse_argument_lines
NoUsage == UsageErr("", <<>>)
DocsOk(usage, summary, args, examples) ==
    [ok |-> TRUE, panic |-> FALSE, err |-> "", usage |-> usage,
     summary |-> summary, args |-> args, examples |-> examples]
DocsErr(err) ==
    [ok |-> FALSE, panic |-> FALSE, err |-> err, usage |-> NoUsage,
     summary |-> <<>>, args |-> <<>>, examples |-> <<>>]
DocsPanic ==
    [ok |-> FALSE, panic |-> TRUE, err |-> "", usage |-> NoUsage,
     summary |-> <<>>, args |-> <<>>, examples |-> <<>>]

\* the outcome of parse_argument_lines as the outcome of parse_docs
args_failure(r) == IF r.panic THEN DocsPanic ELSE DocsErr(r.err)

\* the end of parse_docs, after the last paragraph
parse_docs_finish(usage, summary, args, examples) ==
    IF trim(usage.desc) = <<>> THEN DocsErr("missing command description")
    ELSE IF args # <<>> THEN DocsOk(usage, summary, args[1], examples)
    ELSE LET r == parse_argument_lines(usage, <<>>)
         IN IF r.ok THEN DocsOk(usage, summary, r.args, examples) ELSE args_failure(r)

\* the headers of the three sections, in lower case
SummaryHeaders ==
    {<<"d", "e", "s", "c", "r", "i", "p", "t", "i", "o", "n">>,
     <<"o", "v", "e", "r", "v", "i", "e", "w">>,
     <<"s", "u", "m", "m", "a", "r", "y">>}
ArgumentsHeaders ==
    {<<"a", "r", "g", "u", "m", "e", "n", "t", "s">>,
     <<"p", "a", "r", "a", "m", "e", "t", "e", "r", "s">>}
ExamplesHeaders == {<<"e", "x", "a", "m", "p", "l", "e", "s">>}

\* the loop of parse_docs over the paragraphs; summary, args and examples
\* are Options: <<>> or <<value>>
RECURSIVE parse_docs_loop(_, _, _, _, _)
parse_docs_loop(docs, usage, summary, args, examples) ==
    LET p == take_paragraph(docs, TRUE)
    IN IF ~p.some THEN parse_docs_finish(usage, summary, args, examples)
       ELSE LET header_caps == HEADER_RE(p.par)
                section == From(p.par, header_caps.end)
                header == to_lowercase(header_caps.cap[1])
            IN IF ~header_caps.ok THEN DocsErr("paragraph missing header")
               ELSE IF header \in SummaryHeaders
                    THEN IF summary # <<>> THEN DocsErr("multiple summary sections found")
                         ELSE parse_docs_loop(p.docs, usage, <<relax_lines(section)>>, args, examples)
               ELSE IF header \in ArgumentsHeaders
                    THEN IF args # <<>> THEN DocsErr("multiple arguments sections found")
                         ELSE LET r == parse_argument_lines(usage, section)
                              IN IF r.ok
                                 THEN parse_docs_loop(p.docs, usage, summary, <<r.args>>, examples)
                                 ELSE args_failure(r)
               ELSE IF header \in ExamplesHeaders
                    THEN IF examples # <<>> THEN DocsErr("multiple examples sections found")
                         ELSE parse_docs_loop(p.docs, usage, summary, args, <<relax_lines(section)>>)
               ELSE parse_docs_loop(p.docs, usage, summary, args, examples)

\* CommandDocs::parse_docs
parse_docs(docs) ==
    LET usage_desc == take_paragraph(docs, FALSE)
        usage == parse_usage_desc(usage_desc.par)
    IN IF ~usage.ok THEN DocsErr(usage.err)
       ELSE parse_docs_loop(usage_desc.docs, usage, <<>>, <<>>, <<>>)

----------------------------------------------------------------------------
(* Specification SpecDocs: CommandDocs::parse_docs on doc comments           *)

\* the usage lines: without arguments, with one argument, without a
\* description, with a description that holds a line break
UsageLines ==
    {<<" ", Backtick, "c", Backtick, ":", " ", "d">>,
     <<" ", Backtick, "c", " ", "<", "a", ">", Backtick, ":", " ", "d">>,
     <<" ", Backtick, "c", Backtick>>,
     <<" ", Backtick, "c", Backtick, ":", " ", "d", NL, "e">>}

\* the paragraphs: the section a reader takes them for, the header line and
\* the lines under it
ParagraphPool ==
    {[kind |-> "summary", header |-> <<" ", "#", " ", "D", "e", "s", "c", "r", "i", "p", "t", "i", "o", "n">>,
      body |-> <<<<" ", "o", "n", "e">>, <<" ", " ", "t", "w", "o">>>>],
     [kind |-> "summary", header |-> <<" ", "#", " ", "O", "V", "E", "R", "V", "I", "E", "W">>,
      body |-> <<<<" ", "t", "h", "r", "e", "e">>>>],
     [kind |-> "arguments", header |-> <<" ", "#", " ", "A", "r", "g", "u", "m", "e", "n", "t", "s">>,
      body |-> <<<<" ", "a", ":", " ", "x">>>>],
     [kind |-> "arguments", header |-> <<" ", "#", " ", "p", "a", "r", "a", "m", "e", "t", "e", "r", "s">>,
      body |-> <<<<" ", "a", ":", " ", "y">>>>],
     [kind |-> "examples", header |-> <<" ", "#", " ", "E", "x", "a", "m", "p", "l", "e", "s">>,
      body |-> <<<<" ", "c", " ", "1">>, <<" ", " ", " ", "c", " ", "2">>>>],
     [kind |-> "examples", header |-> <<" ", "#", " ", "e", "x", "a", "m", "p", "l", "e", "s">>,
      body |-> <<<<" ", "c", " ", "3">>>>],
     [kind |-> "other", header |-> <<" ", "#", " ", "N", "o", "t", "e", "s">>,
      body |-> <<<<" ", "n">>>>],
     [kind |-> "malformed", header |-> <<" ", "#", " ", "S", "e", "e", " ", "a", "l", "s", "o">>,
      body |-> <<<<" ", "n">>>>]}

\* the lines of a doc comment: the usage line, then every paragraph after
\* `blanks` empty lines
DocLines(usage_line, pars, blanks) ==
    <<usage_line>>
    \o Flatten([i \in 1..Len(pars) |->
                   [k \in 1..blanks |-> <<>>] \o <<pars[i].header>> \o pars[i].body])

\* `commands` holds what the doc comment was composed of, `tokens` its
\* lines
InitDocs ==
    /\ commands \in {[usage_line |-> u, pars |-> ps, blanks |-> b] :
                        u \in UsageLines, ps \in SeqsUpTo(ParagraphPool, MaxPars),
                        b \in {1, 2}}
    /\ tokens = DocLines(commands.usage_line, commands.pars, commands.blanks)
    /\ stage = "declared"
    /\ id_trie = <<>>
    /\ given = <<>>
    /\ found = NoFound
    /\ pos = 0
    /\ frames = <<>>
    /\ converted = <<>>
    /\ result = <<>>

\* attrs::parse_command hands the doc lines to CommandDocs::parse_docs
ParseDocs ==
    /\ result = <<>>
    /\ result' = <<parse_docs(tokens)>>
    /\ UNCHANGED <<commands, stage, id_trie, given, found, tokens, pos, frames, converted>>

NextDocs == ParseDocs

SpecDocs == InitDocs /\ [][NextDocs]_vars

----------------------------------------------------------------------------
(* Spec construction of one command: FieldInfos::new and Command::new       *)
(* (inputs/field.rs, inputs/command.rs), called by derive_docbot (lib.rs)   *)

\* syn::Fields: the kind and, per field, its name (empty if unnamed) and
\* whether it carries #[docbot(path)]
Field(name, path) == [name |-> name, path |-> path]
Fields(kind, list) == [kind |-> kind, list |-> list]

\* FieldInfo: the argument name and mode of the usage, the opts of the field
FieldInfo(name, mode, path) == [name |-> name, mode |-> mode, path |-> path]

\* Result<FieldInfos>
InfosOk(infos) == [ok |-> TRUE, err |-> "", infos |-> infos]
InfosErr(err) == [ok |-> FALSE, err |-> err, infos |-> <<>>]

\* the chain of (FieldMode, name) over required, optional and rest
usage_args(usage) ==
    [i \in 1..Len(usage.required) |-> [mode |-> "Required", name |-> usage.required[i]]]
    \o [i \in 1..Len(usage.optional) |-> [mode |-> "Optional", name |-> usage.optional[i]]]
    \o (CASE usage.rest.kind = "None" -> <<>>
          [] usage.rest.kind = "Optional" -> <<[mode |-> "RestOptional", name |-> usage.rest.name]>>
          [] usage.rest.kind = "Required" -> <<[mode |-> "RestRequired", name |-> usage.rest.name]>>)

\* Fields::Unnamed: argument i takes field i out of the map
RECURSIVE unnamed_infos(_, _, _, _)
unnamed_infos(args, list, i, acc) ==
    IF i > Len(args) THEN InfosOk(acc)
    ELSE IF i > Len(list) THEN InfosErr("could not locate field")
    ELSE unnamed_infos(args, list, i + 1,
             Append(acc, FieldInfo(args[i].name, args[i].mode, list[i].path)))

\* Fields::Named: every argument takes the field of its name out of the map
RECURSIVE named_infos(_, _, _, _)
named_infos(args, map, i, acc) ==
    IF i > Len(args) THEN InfosOk(acc)
    ELSE LET hit == SelectSeq(map, LAMBDA f : f.name = args[i].name)
         IN IF hit = <<>> THEN InfosErr("could not locate field")
            ELSE named_infos(args, SelectSeq(map, LAMBDA f : f.name # args[i].name), i + 1,
                     Append(acc, FieldInfo(args[i].name, args[i].mode, hit[1].path)))

\* FieldInfos::new without the comparison of the two lengths
FieldInfos_new_unchecked(usage, fields) ==
    LET args == usage_args(usage)
    IN CASE fields.kind = "Unit" ->
                IF args = <<>> THEN InfosOk(<<>>)
                ELSE InfosErr("could not locate any fields in unit type")
         [] fields.kind = "Unnamed" -> unnamed_infos(args, fields.list, 1, <<>>)
         [] fields.kind = "Named" -> named_infos(args, fields.list, 1, <<>>)

\* FieldInfos::new
FieldInfos_new(usage, fields) ==
    LET args == usage_args(usage)
        infos == CASE fields.kind = "Unit" ->
                         IF args = <<>> THEN InfosOk(<<>>)
                         ELSE InfosErr("could not locate any fields in unit type")
                   [] fields.kind = "Unnamed" -> unnamed_infos(args, fields.list, 1, <<>>)
                   [] fields.kind = "Named" -> named_infos(args, fields.list, 1, <<>>)
    IN IF ~infos.ok THEN infos
       ELSE IF Len(infos.infos) # Len(fields.list)
            THEN InfosErr("mismatched number of fields and arguments")
       ELSE infos

\* FieldMode::required
required(mode) == mode \in {"Required", "RestRequired"}

\* Result<Command>, or the panic of parse_argument_lines
CommandOk(subcommand, usage, infos) ==
    [ok |-> TRUE, panic |-> FALSE, err |-> "", subcommand |-> subcommand,
     usage |-> usage, fields |-> infos]
CommandErr(err) ==
    [ok |-> FALSE, panic |-> FALSE, err |-> err, subcommand |-> FALSE,
     usage |-> NoUsage, fields |-> <<>>]
CommandPanic ==
    [ok |-> FALSE, panic |-> TRUE, err |-> "", subcommand |-> FALSE,
     usage |-> NoUsage, fields |-> <<>>]

\* attrs::parse_command (parse_core) on the doc lines of the attributes:
\* the docs of a command without doc comment are CommandDocs::no_docs().
\* The opts are those of #[docbot(subcommand)], which Command::new is
\* handed as `subcommand`
parse_command(docs) ==
    IF docs = <<>> THEN DocsErr("missing doc comment for command") ELSE parse_docs(docs)

\* Command::new without the loop over the path fields
Command_new_path_unchecked(subcommand, docs, fields) ==
    LET parsed == parse_command(docs)
        infos == FieldInfos_new(parsed.usage, fields)
        it == infos.infos
        is_valid == Len(it) = 1 /\ ~it[1].path /\ rest(it[1].mode)
    IN IF parsed.panic THEN CommandPanic
       ELSE IF ~parsed.ok THEN CommandErr(parsed.err)
       ELSE IF ~infos.ok THEN CommandErr(infos.err)
       ELSE IF subcommand /\ ~is_valid
            THEN CommandErr("Invalid structure for a subcommand, should be a single rest parameter")
       ELSE CommandOk(subcommand, parsed.usage, it)

\* Command::new from the `?` of line 19 on: an error of parse_command is
\* returned, else follow the field infos, the check of a subcommand and of
\* the path fields
Command_new_of(subcommand, parsed, fields) ==
    LET infos == FieldInfos_new(parsed.usage, fields)
        it == infos.infos
        is_valid == Len(it) = 1 /\ ~it[1].path /\ rest(it[1].mode)
    IN IF parsed.panic THEN CommandPanic
       ELSE IF ~parsed.ok THEN CommandErr(parsed.err)
       ELSE IF ~infos.ok THEN CommandErr(infos.err)
       ELSE IF subcommand /\ ~is_valid
            THEN CommandErr("Invalid structure for a subcommand, should be a single rest parameter")
       ELSE IF \E i \in 1..Len(it) : it[i].path /\ ~rest(it[i].mode)
            THEN CommandErr("Invalid path argument, should be a rest parameter")
       ELSE CommandOk(subcommand, parsed.usage, it)

\* Command::new on the doc lines and the #[docbot(subcommand)] of the
\* attributes and on the fields
Command_new(subcommand, docs, fields) == Command_new_of(subcommand, parse_command(docs), fields)

----------------------------------------------------------------------------
(* Specification SpecBuild: derive_docbot on one structure                   *)

\* the usage line written for the id `c`, the arguments of a usage and the
\* description `d`
BuildUsageLine(u) ==
    <<" ">>
    \o Paragraph([text |-> <<"c">>, ids |-> <<<<"c">>>>],
                 [i \in 1..Len(u.required) |-> UsageToken("required", u.required[i])]
                 \o [i \in 1..Len(u.optional) |-> UsageToken("optional", u.optional[i])]
                 \o (CASE u.rest.kind = "None" -> <<>>
                       [] u.rest.kind = "Optional" -> <<UsageToken("rest_optional", u.rest.name)>>
                       [] u.rest.kind = "Required" -> <<UsageToken("rest_required", u.rest.name)>>),
                 <<" ">>)
    \o <<":", " ", "d">>

\* the argument names of a usage, and the distinct ones among them in the
\* order of their first occurrence
UsageNames(u) ==
    u.required \o u.optional \o (IF u.rest.kind = "None" THEN <<>> ELSE <<u.rest.name>>)
RECURSIVE FirstOccurrences(_)
FirstOccurrences(ns) ==
    IF ns = <<>> THEN <<>>
    ELSE LET d == FirstOccurrences(SubSeq(ns, 1, Len(ns) - 1))
         IN IF ns[Len(ns)] \in Range(d) THEN d ELSE Append(d, ns[Len(ns)])

\* the names an arguments section documents: none (no section), every name
\* of the usage once, or these and names the usage does not hold, as many
\* as the usage has arguments
Documentations(u) ==
    LET ns == UsageNames(u)
        once == FirstOccurrences(ns)
    IN {<<>>, once,
        once \o [i \in 1..(Len(ns) - Len(once)) |-> [k \in 1..i |-> "x"]]}

\* the arguments section of the documented names
ArgumentsParagraph(ns) ==
    [kind |-> "arguments", header |-> <<" ", "#", " ", "A", "r", "g", "u", "m", "e", "n", "t", "s">>,
     body |-> [i \in 1..Len(ns) |-> <<" ">> \o ns[i] \o <<":", " ", "x">>]]

\* the doc comments: none at all, or the usage line of a usage and the
\* arguments section of a documentation
BuildDocs ==
    {<<>>}
    \cup UNION {{DocLines(BuildUsageLine(u),
                          IF ns = <<>> THEN <<>> ELSE <<ArgumentsParagraph(ns)>>, 1) :
                    ns \in Documentations(u)} :
                  u \in {d \in DocUsages : Len(d.required) + Len(d.optional) <= MaxDocArgs}}

\* the structures: a unit, tuples of up to MaxFields fields, and named
\* fields with distinct names
FieldShapes ==
    {Fields("Unit", <<>>)}
    \cup {Fields("Unnamed", [i \in 1..Len(ps) |-> Field(<<>>, ps[i])]) :
            ps \in SeqsUpTo(BOOLEAN, MaxFields)}
    \cup {Fields("Named", [i \in 1..Len(np[1]) |-> Field(np[1][i], np[2][i])]) :
            np \in {x \in SeqsUpTo(ArgNames, MaxFields) \X SeqsUpTo(BOOLEAN, MaxFields) :
                        /\ Len(x[1]) = Len(x[2])
                        /\ \A i, j \in 1..Len(x[1]) : x[1][i] = x[1][j] => i = j}}

\* `commands` holds the structure and its #[docbot(subcommand)], `tokens`
\* the lines of its doc comment
InitBuild ==
    /\ commands \in {[subcommand |-> sc, fields |-> f] : sc \in BOOLEAN, f \in FieldShapes}
    /\ stage = "declared"
    /\ id_trie = <<>>
    /\ given = <<>>
    /\ found = NoFound
    /\ tokens \in BuildDocs
    /\ pos = 0
    /\ frames = <<>>
    /\ converted = <<>>
    /\ result = <<>>

\* the path items bits/path.rs emits for a structure.  Without
\* #[docbot(subcommand)] the path type is the id type and no item is
\* emitted; with it the arms of parse and head are `Self::Id => Self(..)` and
\* `Self(_) => Self::Id`, which name the associated type where a value is
\* expected, and the build of the program fails on them
struct_path_items_build(subcommand) == ~subcommand

\* derive_docbot on a structure, and the build of what it emits.
\* Commands::new (Data::Struct) calls Command::new and builds the Trie of
\* the ids; on an error, or a panic, of either no item is emitted and the
\* build of the program fails.  Else the id, path, parse and help items are
\* emitted together, and the build fails if the path items do not build
DeriveDocbot ==
    /\ stage = "declared"
    /\ result' = <<Command_new(commands.subcommand, tokens, commands.fields)>>
    /\ LET command == result'[1]
           set == <<Command(command.usage.ids, command.usage.required, command.usage.optional,
                            command.usage.rest, IF command.subcommand THEN "Sub" ELSE "")>>
       IN IF command.ok
          THEN /\ id_trie' \in Trie_new(trie_entries(set))
               /\ stage' = IF id_trie'.ok /\ struct_path_items_build(command.subcommand)
                           THEN "built" ELSE "rejected"
          ELSE /\ id_trie' = id_trie
               /\ stage' = "rejected"
    /\ UNCHANGED <<commands, given, found, tokens, pos, frames, converted>>

\* a call of the emitted Command::parse: it exists only for a built spec and
\* reads the fields in the order of the field infos
CallParse ==
    /\ stage = "built"
    /\ frames = <<>>
    /\ frames' = <<[fields |-> result[1].fields]>>
    /\ UNCHANGED <<commands, stage, id_trie, given, found, tokens, pos, converted, result>>

NextBuild == DeriveDocbot \/ CallParse

SpecBuild == InitBuild /\ [][NextBuild]_vars

----------------------------------------------------------------------------
(* FoldError (docbot/fold_error.rs)                                         *)

\* anyhow::Error by the type Downcast finds in it; the error it holds is
\* kept as a record for every type
Anyhow(kind, e) == [kind |-> kind, err |-> e]

\* an error of a type that is none of the three of docbot
OtherError(msg) == [tag |-> "Other", msg |-> msg]

\* IdParseError
NoMatch(s, available) == [tag |-> "NoMatch", given |-> s, names |-> available]
Ambiguous(possible, s) == [tag |-> "Ambiguous", given |-> s, names |-> possible]

\* From<Anyhow> for Downcast: the first of CommandParseError, IdParseError
\* and PathParseError the error downcasts to, else Other
Downcast(anyhow) ==
    IF anyhow.kind \in {"CommandParse", "IdParse", "PathParse"} THEN anyhow.kind ELSE "Other"

\* Self::Output of the FoldError the model folds with: the handlers invoked,
\* in the order of their invocation.  A handler that is given the output of
\* an inner fold appends its own invocation to it
Call(handler, cmd, arg, text, list) ==
    [handler |-> handler, cmd |-> cmd, arg |-> arg, text |-> text, names |-> list]

no_id_match(s, available) == <<Call("no_id_match", <<>>, <<>>, s, available)>>
ambiguous_id(possible, s) == <<Call("ambiguous_id", <<>>, <<>>, s, possible)>>
incomplete_path(possible) == <<Call("incomplete_path", <<>>, <<>>, <<>>, possible)>>
trailing_path(extra) == <<Call("trailing_path", <<>>, <<>>, extra, <<>>)>>
no_input == <<Call("no_input", <<>>, <<>>, <<>>, <<>>)>>
missing_required(cmd, arg) == <<Call("missing_required", cmd, arg, <<>>, <<>>)>>
bad_convert(cmd, arg, inner) == inner \o <<Call("bad_convert", cmd, arg, <<>>, <<>>)>>
trailing(cmd, extra) == <<Call("trailing", cmd, <<>>, extra, <<>>)>>
subcommand(subcmd, inner) == inner \o <<Call("subcommand", subcmd, <<>>, <<>>, <<>>)>>
other(error) == <<Call("other", <<>>, <<>>, error.msg, <<>>)>>

\* FoldError::fold_id_parse
fold_id_parse(err) ==
    IF err.tag = "NoMatch" THEN no_id_match(err.given, err.names)
    ELSE ambiguous_id(err.names, err.given)

\* the provided bad_path_id and bad_id
bad_path_id(err) == fold_id_parse(err)
bad_id(err) == fold_id_parse(err)

\* FoldError::fold_path_parse
fold_path_parse(err) ==
    CASE err.tag = "Incomplete" -> incomplete_path(err.available)
      [] err.tag = "BadId" -> bad_path_id(err.id_err)
      [] err.tag = "Trailing" -> trailing_path(err.extra)

RECURSIVE fold_command_parse(_), fold_anyhow(_)

\* a fold_command_parse that invokes the subcommand handler before it folds
\* the inner error
fold_command_parse_wrapper_first(err) ==
    CASE err.tag = "NoInput" -> no_input
      [] err.tag = "BadId" -> bad_id(err.id_err)
      [] err.tag = "MissingRequired" -> missing_required(err.cmd, err.arg)
      [] err.tag = "BadConvert" -> bad_convert(err.cmd, err.arg, fold_anyhow(err.cause))
      [] err.tag = "Trailing" -> trailing(err.cmd, err.extra)
      [] err.tag = "Subcommand" -> subcommand(err.cmd, <<>>) \o fold_command_parse(err.inner)

\* FoldError::fold_command_parse: the arguments of a handler are evaluated
\* before the handler is invoked
fold_command_parse(err) ==
    CASE err.tag = "NoInput" -> no_input
      [] err.tag = "BadId" -> bad_id(err.id_err)
      [] err.tag = "MissingRequired" -> missing_required(err.cmd, err.arg)
      [] err.tag = "BadConvert" -> bad_convert(err.cmd, err.arg, fold_anyhow(err.cause))
      [] err.tag = "Trailing" -> trailing(err.cmd, err.extra)
      [] err.tag = "Subcommand" -> subcommand(err.cmd, fold_command_parse(err.inner))

\* FoldError::fold_anyhow
fold_anyhow(err) ==
    CASE Downcast(err) = "CommandParse" -> fold_command_parse(err.err)
      [] Downcast(err) = "IdParse" -> fold_id_parse(err.err)
      [] Downcast(err) = "PathParse" -> fold_path_parse(err.err)
      [] Downcast(err) = "Other" -> other(err.err)

----------------------------------------------------------------------------
(* SpecFold: fold_command_parse on the error values of a bounded nesting    *)

\* command and argument names, tokens and name lists the errors carry
FoldCmds == {<<"a">>, <<"b">>}
FoldArg == <<"x">>
FoldToken == <<"q">>
FoldNames == <<<<"a">>, <<"b">>>>

IdParseErrors == {NoMatch(FoldToken, FoldNames), Ambiguous(FoldNames, FoldToken)}

PathParseErrors ==
    {PathIncomplete(FoldNames), PathTrailing(FoldToken)}
    \cup {PathBadId(e) : e \in IdParseErrors}

\* the causes of a BadConvert that hold no CommandParseError
PlainCauses ==
    {Anyhow("Other", OtherError(<<"InvalidDigit">>))}
    \cup {Anyhow("IdParse", e) : e \in IdParseErrors}
    \cup {Anyhow("PathParse", e) : e \in PathParseErrors}

\* the CommandParseErrors in which at most n errors hold another
\* CommandParseError
RECURSIVE CommandParseErrors(_)
CommandParseErrors(n) ==
    IF n = 0
    THEN {NoInput, MissingRequired(<<"a">>, FoldArg), Trailing(<<"a">>, FoldToken)}
         \cup {BadId(e) : e \in IdParseErrors}
         \cup {BadConvert(<<"a">>, FoldArg, c) : c \in PlainCauses}
    ELSE LET inner == CommandParseErrors(n - 1)
         IN inner
            \cup {Subcommand(c, e) : c \in FoldCmds, e \in inner}
            \cup {BadConvert(<<"b">>, FoldArg, Anyhow("CommandParse", e)) : e \in inner}

InitFold ==
    /\ commands \in CommandParseErrors(MaxNest)
    /\ stage = "error"
    /\ id_trie = <<>>
    /\ given = <<>>
    /\ found = NoFound
    /\ tokens = <<>>
    /\ pos = 0
    /\ frames = <<>>
    /\ converted = <<>>
    /\ result = <<>>

\* a call of fold_command_parse on the error
FoldCommandParse ==
    /\ stage = "error"
    /\ result' = fold_command_parse(commands)
    /\ stage' = "folded"
    /\ UNCHANGED <<commands, id_trie, given, found, tokens, pos, frames, converted>>

NextFold == FoldCommandParse

SpecFold == InitFold /\ [][NextFold]_vars

----------------------------------------------------------------------------
\* ==== CLAIMS ====
----------------------------------------------------------------------------
(* Vocabulary of the claims about the id lexer (SpecId) *)

\* a lookup has been made
Looked == stage = "built" /\ found # NoFound

\* the declared ids and aliases of a command set, lowercased, each with the
\* index of its command
DeclaredIds(cmds) ==
    UNION {{<<to_lowercase(cmds[i].ids[j]), i>> : j \in 1..Len(cmds[i].ids)} :
              i \in 1..Len(cmds)}

\* the declared ids that have the (lowercased) input as a prefix
Matching(cmds, s) == {e \in DeclaredIds(cmds) : IsPrefix(to_lowercase(s), e[1])}

\* those of them that do not extend another declared id that also has the
\* input as a prefix
Shortest(cmds, s) ==
    {e \in Matching(cmds, s) :
        ~ \E e2 \in Matching(cmds, s) : e2[1] # e[1] /\ IsPrefix(e2[1], e[1])}

Owners(es) == {e[2] : e \in es}
Names(es) == {e[1] : e \in es}

\* C2: a lookup of a prefix of some declared id succeeds with
\* command c exactly when every declared id with that prefix belongs to c,
\* and a prefix of ids of two distinct commands is reported as Ambiguous.
C2_AsStated ==
    (Looked /\ Matching(commands["Cli"], given) # {}) =>
        /\ \A c \in 1..Len(commands["Cli"]) :
              (found.ok /\ found.id = c) <=> Owners(Matching(commands["Cli"], given)) = {c}
        /\ Cardinality(Owners(Matching(commands["Cli"], given))) >= 2 =>
              (~found.ok /\ found.err.tag = "Ambiguous")

\* what the lexer decides by, a node that ends a declared id keeping the
\* payload of that id only (trie.rs:146-166): a lookup of a prefix of some
\* declared id succeeds with command c exactly when every declared id that
\* has the input as a prefix and extends no other such id belongs to c; when
\* those ids belong to two distinct commands the lookup is Ambiguous.
C2_ShortestIdsDecide ==
    (Looked /\ Matching(commands["Cli"], given) # {}) =>
        /\ \A c \in 1..Len(commands["Cli"]) :
              (found.ok /\ found.id = c) <=> Owners(Shortest(commands["Cli"], given)) = {c}
        /\ Cardinality(Owners(Shortest(commands["Cli"], given))) >= 2 =>
              (~found.ok /\ found.err.tag = "Ambiguous")

\* an abbreviation (no declared id itself) resolved among several ids, one
\* of which is a strict prefix of another command's id
C2_Witness ==
    /\ Looked /\ found.ok
    /\ to_lowercase(given) \notin Names(DeclaredIds(commands["Cli"]))
    /\ Cardinality(Owners(Matching(commands["Cli"], given))) >= 2

\* C6: an Ambiguous error lists exactly the declared ids
\* (lowercased) that have the lowercased input as a prefix, among them ids
\* of two distinct commands, and carries the input as given.
C6_AsStated ==
    (Looked /\ ~found.ok /\ found.err.tag = "Ambiguous") =>
        /\ Range(found.err.names) = Names(Matching(commands["Cli"], given))
        /\ Len(found.err.names) = Cardinality(Matching(commands["Cli"], given))
        /\ Cardinality(Owners({e \in DeclaredIds(commands["Cli"]) :
                                  e[1] \in Range(found.err.names)})) >= 2
        /\ found.err.given = given

\* what the lexer lists: an Ambiguous error names the declared ids
\* (lowercased) that have the lowercased input as a prefix and extend no
\* other such id, each once, among them ids of two distinct commands, and
\* carries the input as given.
C6_CandidatesAreShortestIds ==
    (Looked /\ ~found.ok /\ found.err.tag = "Ambiguous") =>
        /\ Range(found.err.names) = Names(Shortest(commands["Cli"], given))
        /\ Len(found.err.names) = Cardinality(Shortest(commands["Cli"], given))
        /\ Cardinality(Owners({e \in DeclaredIds(commands["Cli"]) :
                                  e[1] \in Range(found.err.names)})) >= 2
        /\ found.err.given = given

\* an Ambiguous error for an input written with an upper-case letter
C6_Witness ==
    /\ Looked /\ ~found.ok /\ found.err.tag = "Ambiguous"
    /\ given # to_lowercase(given)

\* the input is a declared id followed by at least one more character
ExtendsDeclared(cmds, s) ==
    \E e \in DeclaredIds(cmds) : IsPrefix(e[1], to_lowercase(s)) /\ Len(s) > Len(e[1])

\* the NoMatch error carries the input and every declared id and alias
NoMatchPayload ==
    (Looked /\ ~found.ok /\ found.err.tag = "NoMatch") =>
        /\ found.err.given = given
        /\ found.err.names =
              Flatten([i \in 1..Len(commands["Cli"]) |-> commands["Cli"][i].ids])

\* C7 as stated: NoMatch(input, all names) is returned exactly when the
\* lowercased input is a prefix of no declared id, and that is the case for
\* every input that extends a declared id by extra characters.
C7_AsStated ==
    Looked =>
        /\ (~found.ok /\ found.err.tag = "NoMatch") <=> Matching(commands["Cli"], given) = {}
        /\ NoMatchPayload
        /\ ExtendsDeclared(commands["Cli"], given) => (~found.ok /\ found.err.tag = "NoMatch")

\* C7 (amended): NoMatch(input, all names) is returned exactly when the
\* lowercased input is a prefix of no declared id (lowercased); that is the
\* case for an input that extends a declared id by extra characters unless
\* the input is still a prefix of a longer declared id.
C7_NoMatchIffNoPrefix ==
    Looked =>
        /\ (~found.ok /\ found.err.tag = "NoMatch") <=> Matching(commands["Cli"], given) = {}
        /\ NoMatchPayload
        /\ (ExtendsDeclared(commands["Cli"], given) /\ Matching(commands["Cli"], given) = {}) =>
              (~found.ok /\ found.err.tag = "NoMatch")

\* NoMatch for an input that extends a declared id, written in another case
C7_Witness ==
    /\ Looked /\ ~found.ok /\ found.err.tag = "NoMatch"
    /\ ExtendsDeclared(commands["Cli"], given)
    /\ given # to_lowercase(given)

----------------------------------------------------------------------------
(* Vocabulary of the claims about Command::parse (Spec) *)

\* the outermost Command::parse has returned; Res is what it returned
Returned == result # <<>>
Res == result[1]

\* the lookup of the head token in the outer command set
HeadRes == from_str(commands["Cli"], id_trie["Cli"], tokens[1])
HeadResolved == tokens # <<>> /\ HeadRes.ok

\* the command the head token resolved to and its first-listed id
HeadCmd == commands["Cli"][HeadRes.id]
HeadName == HeadCmd.ids[1]

\* the tokens after the head, and whether each converts to the field type
Args == Tail(tokens)
Converts(t) == parse_arg(t).ok
Conv(t) == parse_arg(t).val
AllConvert == \A i \in 1..Len(Args) : Converts(Args[i])

\* the result is exactly this error
FailsWith(e) == Returned /\ ~Res.ok /\ Res.err.tag = e.tag /\ Res.err = e

\* C1: a command with R required and O optional fields and no rest field,
\* given k tokens that all convert, reports the (k+1)-th required field as
\* missing when k < R, returns the fields filled in order (the optional ones
\* Some for the first k-R, None for the others) when R <= k <= R+O, and
\* reports the (R+O+1)-th token as trailing when k > R+O.
C1_Arity ==
    (Returned /\ HeadResolved /\ HeadCmd.rest.kind = "None" /\ AllConvert) =>
        LET R == Len(HeadCmd.required)
            O == Len(HeadCmd.optional)
            k == Len(Args)
        IN /\ k < R => FailsWith(MissingRequired(HeadName, HeadCmd.required[k + 1]))
           /\ (R <= k /\ k <= R + O) =>
                 /\ Res.ok
                 /\ Res.val.ty = "Cli" /\ Res.val.id = HeadRes.id
                 /\ Len(Res.val.fields) = R + O
                 /\ \A i \in 1..R : Res.val.fields[i] = Conv(Args[i])
                 /\ \A i \in (R + 1)..k : Res.val.fields[i] = <<Conv(Args[i])>>
                 /\ \A i \in (k + 1)..(R + O) : Res.val.fields[i] = <<>>
           /\ k > R + O => FailsWith(Trailing(HeadName, Args[R + O + 1]))

\* one required and one optional field, both filled, and one token too many
C1_Witness ==
    /\ Returned /\ HeadResolved /\ HeadCmd.rest.kind = "None" /\ AllConvert
    /\ Len(HeadCmd.required) = 1 /\ Len(HeadCmd.optional) = 1
    /\ Len(Args) = 3
    /\ ~Res.ok /\ Res.err.tag = "Trailing"

\* C3: a plain rest field reached with n tokens left that all convert gives
\* MissingRequired(cmd, field) when it is required and n = 0, and otherwise
\* the sequence of the n converted values in stream order.
C3_RestCollection ==
    (/\ Returned /\ HeadResolved /\ HeadCmd.rest.kind # "None" /\ HeadCmd.sub = ""
     /\ AllConvert /\ Len(Args) >= Len(HeadCmd.required)) =>
        LET before == Len(HeadCmd.required) + Len(HeadCmd.optional)
            n == IF Len(Args) > before THEN Len(Args) - before ELSE 0
        IN IF HeadCmd.rest.kind = "Required" /\ n = 0
           THEN FailsWith(MissingRequired(HeadName, HeadCmd.rest.name))
           ELSE /\ Res.ok
                /\ Len(Res.val.fields) = before + 1
                /\ Len(Res.val.fields[before + 1]) = n
                /\ \A i \in 1..n : Res.val.fields[before + 1][i] = Conv(Args[before + i])

\* a required rest field after a required field collected two tokens
C3_Witness ==
    /\ Returned /\ HeadResolved /\ HeadCmd.rest.kind = "Required" /\ HeadCmd.sub = ""
    /\ Len(HeadCmd.required) = 1
    /\ Len(Args) = 3 /\ AllConvert /\ Args[2] # Args[3]
    /\ Res.ok

\* the error at the bottom of a chain of Subcommand wrappers
RECURSIVE InnerError(_)
InnerError(e) == IF e.tag = "Subcommand" THEN InnerError(e.inner) ELSE e

\* the name of the k-th field of a command (required, optional, rest)
FieldName(cmd, k) ==
    IF k <= Len(cmd.required) THEN cmd.required[k]
    ELSE IF k <= Len(cmd.required) + Len(cmd.optional) THEN cmd.optional[k - Len(cmd.required)]
    ELSE cmd.rest.name

\* the tokens after the head that a command without subcommand offers to
\* its fields: all of them with a rest field, one per field without
Offered(cmd) ==
    IF cmd.rest.kind # "None" \/ Len(Args) <= Len(cmd.required) + Len(cmd.optional)
    THEN Len(Args)
    ELSE Len(cmd.required) + Len(cmd.optional)

\* C4: parse returns a complete value or one error and nothing else; a
\* failing conversion is reported for the first offered token that fails,
\* as BadConvert naming the command and the field that token was read for;
\* every token converted before it converted successfully and no token
\* after it is converted.
C4_FirstFailureOnly ==
    Returned =>
        /\ \/ /\ Res.ok /\ Res.err = NoError /\ HeadResolved
              /\ Res.val.ty = "Cli"
              /\ Len(Res.val.fields) = Len(field_info(HeadCmd))
           \/ /\ ~Res.ok /\ Res.val = NoValue /\ Res.err.tag # "none"
        /\ \A i \in 1..(Len(converted) - 1) :
              /\ Converts(tokens[converted[i]])
              /\ converted[i] < converted[i + 1]
        /\ (converted # <<>> /\ ~Converts(tokens[converted[Len(converted)]]))
              <=> (~Res.ok /\ InnerError(Res.err).tag = "BadConvert")
        /\ (HeadResolved /\ HeadCmd.sub = "") =>
              LET bad == {i \in 1..Offered(HeadCmd) : ~Converts(Args[i])}
              IN IF bad = {}
                 THEN Res.ok \/ Res.err.tag # "BadConvert"
                 ELSE LET f == CHOOSE i \in bad : \A j \in bad : i <= j
                      IN /\ FailsWith(BadConvert(HeadName, FieldName(HeadCmd, f),
                                                 parse_arg(Args[f]).err))
                         /\ converted = [i \in 1..f |-> i + 1]

\* a rest field stopped at its second token, with one more token behind it
C4_Witness ==
    /\ Returned /\ HeadResolved /\ HeadCmd.sub = "" /\ HeadCmd.rest.kind # "None"
    /\ ~Res.ok /\ Res.err.tag = "BadConvert" /\ Res.err.arg = HeadCmd.rest.name
    /\ Len(converted) >= 2
    /\ converted[Len(converted)] + 1 <= Len(tokens)

\* the outer command is a subcommand: its single rest field is a nested
\* command set
HeadIsSubcommand == HeadResolved /\ HeadCmd.sub # ""

\* the nested parser is entered with exactly the head tokens of the outer
\* levels taken and nothing converted
NestedGetsAllTokens ==
    \A d \in 2..Len(frames) :
        (d = Len(frames) /\ frames[d].pc = "head") => (pos = d - 1 /\ converted = <<>>)

\* the outer result of a subcommand command: a value around a nested value,
\* or a Subcommand error naming the outer command
SubcommandOutcome ==
    \/ /\ Res.ok
       /\ Res.val.id = HeadRes.id
       /\ Len(Res.val.fields) = 1
       /\ Res.val.fields[1].ty = HeadCmd.sub
    \/ /\ ~Res.ok
       /\ Res.err.tag = "Subcommand"
       /\ Res.err.cmd = HeadName

\* C5: the outer parser of a command with a rest field tagged Subcommand
\* hands the nested parser every token after the head; the failure of the
\* nested parser, also on an empty remainder, comes back as
\* Subcommand(outer id, inner error), its success inside the outer value.
C5_AsStated ==
    /\ NestedGetsAllTokens
    /\ (Returned /\ HeadIsSubcommand) =>
          /\ SubcommandOutcome
          /\ Args = <<>> => FailsWith(Subcommand(HeadName, NoInput))

\* what Command::parse does: as C5 says, but for a subcommand field that is
\* a required rest field and has no token left, where the peek of the
\* RestRequired arm answers before the nested parser is called
C5_ExceptRequiredOnEmpty ==
    /\ NestedGetsAllTokens
    /\ (Returned /\ HeadIsSubcommand) =>
          IF HeadCmd.rest.kind = "Required" /\ Args = <<>>
          THEN FailsWith(MissingRequired(HeadName, HeadCmd.rest.name))
          ELSE /\ SubcommandOutcome
               /\ Args = <<>> => FailsWith(Subcommand(HeadName, NoInput))

\* a nested value inside the outer value, two levels down
C5_NestedValue ==
    /\ Returned /\ HeadIsSubcommand /\ Res.ok
    /\ Len(tokens) = 4
    /\ Res.val.fields[1].ty = "Sub"
    /\ Res.val.fields[1].fields[1].ty = "Leaf"

\* C8: when the head token is a declared id or alias of a command, in any
\* letter case, and the arguments are accepted, the value's id is that
\* command and to_str of it is the command's first-listed id; such a head
\* token is never rejected as an id.
C8_IdOfParsedValue ==
    (Returned /\ tokens # <<>>) =>
        \A c \in 1..Len(commands["Cli"]) :
            (\E j \in 1..Len(commands["Cli"][c].ids) :
                to_lowercase(tokens[1]) = to_lowercase(commands["Cli"][c].ids[j])) =>
                /\ Res.ok =>
                      /\ id_of(Res.val) = c
                      /\ to_str(commands["Cli"], id_of(Res.val)) = commands["Cli"][c].ids[1]
                /\ ~Res.ok => Res.err.tag \notin {"NoInput", "BadId"}

\* a value parsed from the alias written in its declared (upper) case
C8_Witness ==
    /\ Returned /\ tokens # <<>> /\ tokens[1] = commands["Cli"][1].ids[2]
    /\ tokens[1] # to_lowercase(tokens[1])
    /\ Res.ok /\ Len(Res.val.fields) >= 2

\* every command name in an error is the first-listed id of the command the
\* head token of its level resolved to
RECURSIVE NamesResolvedCommand(_, _, _)
NamesResolvedCommand(e, ty, d) ==
    e.tag \in {"MissingRequired", "BadConvert", "Trailing", "Subcommand"} =>
        LET r == from_str(commands[ty], id_trie[ty], tokens[d])
        IN /\ r.ok
           /\ e.cmd = commands[ty][r.id].ids[1]
           /\ e.tag = "Subcommand" =>
                 NamesResolvedCommand(e.inner, commands[ty][r.id].sub, d + 1)

\* C9: the command name in every MissingRequired, BadConvert, Trailing and
\* Subcommand error is the first-listed id of the command the head token
\* resolved to, however the head token was written.
C9_CanonicalNameInErrors ==
    (Returned /\ ~Res.ok) => NamesResolvedCommand(Res.err, "Cli", 1)

\* a Subcommand error around a Subcommand error around a BadConvert: the
\* outer head token abbreviates the alias, which is declared in another
\* letter case, and the innermost head token is the alias of its command
C9_Witness ==
    /\ Returned /\ ~Res.ok /\ Res.err.tag = "Subcommand"
    /\ tokens[1] # to_lowercase(HeadName)
    /\ \E j \in 2..Len(HeadCmd.ids) :
          /\ IsPrefix(tokens[1], to_lowercase(HeadCmd.ids[j]))
          /\ Len(tokens[1]) < Len(HeadCmd.ids[j])
    /\ Res.err.inner.tag = "Subcommand"
    /\ Res.err.inner.inner.tag = "BadConvert"
    /\ Res.err.inner.inner.cmd # tokens[3]

\* C10: on an empty stream parse returns NoInput (and only then); when the
\* head token fails the id lookup it returns BadId with the lookup's error
\* and has read the head token only.
C10_NoInputAndBadId ==
    Returned =>
        /\ tokens = <<>> <=> (~Res.ok /\ Res.err.tag = "NoInput")
        /\ tokens = <<>> => pos = 0
        /\ (tokens # <<>> /\ ~HeadRes.ok) =>
              /\ FailsWith(BadId(HeadRes.err))
              /\ Res.err.id_err.given = tokens[1]
              /\ pos = 1
              /\ converted = <<>>

\* an ambiguous head token with further tokens behind it
C10_Witness ==
    /\ Returned /\ ~Res.ok /\ Res.err.tag = "BadId"
    /\ Res.err.id_err.tag = "Ambiguous"
    /\ Len(tokens) >= 3

----------------------------------------------------------------------------
(* Trie construction (SpecId) *)

\* the strings Commands::new inserts, in insertion order
Inserted == [i \in 1..Len(names(commands["Cli"])) |-> to_lowercase(names(commands["Cli"])[i])]

\* the positions whose string was inserted before
Repeats == {j \in 1..Len(Inserted) : \E i \in 1..(j - 1) : Inserted[i] = Inserted[j]}

\* some inserted string is a strict prefix of another one
HasStrictPrefix ==
    \E i, j \in 1..Len(Inserted) :
        IsPrefix(Inserted[i], Inserted[j]) /\ Len(Inserted[i]) < Len(Inserted[j])

\* C11: building the trie fails exactly when two inserted entries have the
\* same lowercased string, whether they belong to one command or to two,
\* and the error names that string; every other set of entries, also one
\* where an id is a strict prefix of another, builds.
C11_DuplicateIdsRejected ==
    stage # "declared" =>
        /\ stage = "rejected" <=> Repeats # {}
        /\ id_trie["Cli"].ok <=> Repeats = {}
        /\ Repeats # {} =>
              id_trie["Cli"].err = Inserted[CHOOSE j \in Repeats : \A k \in Repeats : j <= k]
        /\ Repeats = {} => Len(id_trie["Cli"].payloads) = Len(Inserted)
        /\ (HasStrictPrefix /\ Repeats = {}) => stage = "built"

\* one command lists the same id in two letter cases
C11_Witness ==
    /\ stage = "rejected"
    /\ Len(commands["Cli"]) = 1
    /\ Len(Inserted) = 2
    /\ names(commands["Cli"])[1] # names(commands["Cli"])[2]
    /\ id_trie["Cli"].err = <<"a", "b">>

----------------------------------------------------------------------------
(* Vocabulary of the claims about CommandPath (SpecPath) *)

\* the call that returned, and what it returned
Called(fn) == frames # <<>> /\ frames[1].fn = fn
CalledTy == frames[1].ty
PathRes == result[1]

\* the lookup of the first token in the command set the call was made on
PathHead == from_str(commands[CalledTy], id_trie[CalledTy], tokens[1])
PathHeadCmd == commands[CalledTy][PathHead.id]

\* the call returned exactly this error
PathFailsWith(e) == ~PathRes.ok /\ PathRes.err.tag = e.tag /\ PathRes.err = e

\* C12: for a command set without subcommand, parse returns Incomplete(all
\* names) on the empty stream, the resolved id for a single token that
\* resolves, and Trailing(second token) when the first token resolves and
\* more tokens follow.
C12_IdPathParse ==
    (Called("parse") /\ is_id(commands[CalledTy])) =>
        /\ tokens = <<>> =>
              PathFailsWith(PathIncomplete(Flatten([i \in 1..Len(commands[CalledTy]) |->
                                                       commands[CalledTy][i].ids])))
        /\ (Len(tokens) = 1 /\ PathHead.ok) =>
              (PathRes.ok /\ head(PathRes.val) = PathHead.id /\ PathRes.val.ty = CalledTy)
        /\ (Len(tokens) >= 2 /\ PathHead.ok) => PathFailsWith(PathTrailing(tokens[2]))

\* an abbreviated head token that resolves, and two more tokens
C12_Witness ==
    /\ Called("parse") /\ CalledTy = "Cli" /\ is_id(commands["Cli"])
    /\ Len(tokens) = 3 /\ PathHead.ok /\ tokens[2] # tokens[3]
    /\ tokens[1] = <<"b">>
    /\ ~PathRes.ok /\ PathRes.err.tag = "Trailing"

\* C13: when the first token fails the id lookup, parse returns BadId with
\* the lookup's error, whether or not more tokens follow.
C13_BadIdFirst ==
    (Called("parse") /\ tokens # <<>> /\ ~PathHead.ok) => PathFailsWith(PathBadId(PathHead.err))

\* what parse does with a first token that fails the lookup: the parse of
\* an id type answers Trailing when a token follows and has not looked the
\* first one up; the generated parse answers BadId
C13_TrailingBeforeLookup ==
    (Called("parse") /\ tokens # <<>> /\ ~PathHead.ok) =>
        IF is_id(commands[CalledTy]) /\ Len(tokens) >= 2
        THEN PathFailsWith(PathTrailing(tokens[2])) /\ converted = <<>> /\ found = NoFound
        ELSE PathFailsWith(PathBadId(PathHead.err)) /\ converted = <<1>>

\* C14: the parse of the path type generated for a set with a subcommand
\* returns Trailing(token) when the first token resolves to a command that
\* is no subcommand and a token follows it.
C14_TrailingAfterPlainCommand ==
    (/\ Called("parse") /\ ~is_id(commands[CalledTy])
     /\ Len(tokens) >= 2 /\ PathHead.ok /\ PathHeadCmd.sub = "") =>
        PathFailsWith(PathTrailing(tokens[2]))

\* what the generated parse does then: it returns the variant and has taken
\* the first token only
C14_TokensLeftUnread ==
    (/\ Called("parse") /\ ~is_id(commands[CalledTy])
     /\ Len(tokens) >= 2 /\ PathHead.ok /\ PathHeadCmd.sub = "") =>
        /\ PathRes = PathOk(PathOf(CalledTy, PathHead.id, FALSE, <<>>))
        /\ pos = 1

\* parse_opt of the nested path type on the tokens after the first
NestedOpt == parse_opt(PathHeadCmd.sub, Tail(tokens), PathStart).out

\* C15: when the first token resolves to a subcommand, the remaining tokens
\* go to parse_opt of the nested path type: no remaining token gives the id
\* with nested path None, remaining tokens that parse to the nested path p
\* give the id with Some(p), and a nested error is the outer result,
\* unchanged.
C15_NestedPath ==
    (Called("parse") /\ tokens # <<>> /\ PathHead.ok /\ PathHeadCmd.sub # "") =>
        /\ Len(tokens) = 1 => PathRes = PathOk(PathOf(CalledTy, PathHead.id, TRUE, <<>>))
        /\ (Len(tokens) >= 2 /\ PathRes.ok) =>
              /\ head(PathRes.val) = PathHead.id
              /\ PathRes.val.inner # <<>>
              /\ PathRes.val.inner[1].ty = PathHeadCmd.sub
        /\ IF NestedOpt.ok
           THEN PathRes = PathOk(PathOf(CalledTy, PathHead.id, TRUE, NestedOpt.val))
           ELSE PathFailsWith(NestedOpt.err)
        /\ ~PathRes.ok => PathRes.err.tag # "Incomplete"

\* the nesting depth of a path: the levels below its own
RECURSIVE PathDepth(_)
PathDepth(p) == IF p.inner = <<>> THEN 0 ELSE 1 + PathDepth(p.inner[1])

\* a path of three levels, parsed from three tokens
C15_Witness ==
    /\ Called("parse") /\ CalledTy = "Cli"
    /\ Len(tokens) = 3
    /\ PathRes.ok /\ PathDepth(PathRes.val) = 2
    /\ PathRes.val.inner[1].inner[1].ty = "Leaf"

\* C16: parse_opt, of an id type and of a generated path type, returns
\* Ok(None) exactly on the empty stream, Ok(Some(p)) exactly when parse
\* returns p on the same tokens, else the error parse returns, which is
\* never the error of an empty stream.
C16_ParseOpt ==
    Called("parse_opt") =>
        LET plain == CommandPath_parse(CalledTy, tokens, PathStart).out
        IN /\ (PathRes.ok /\ PathRes.val = <<>>) <=> tokens = <<>>
           /\ plain.ok => (PathRes.ok /\ PathRes.val = <<plain.val>>)
           /\ (PathRes.ok /\ PathRes.val # <<>>) => (plain.ok /\ plain.val = PathRes.val[1])
           /\ ~PathRes.ok =>
                 (/\ PathRes.err.tag # "Incomplete"
                  /\ ~plain.ok /\ plain.err = PathRes.err)
           /\ (~plain.ok /\ tokens # <<>>) => (~PathRes.ok /\ PathRes.err = plain.err)

\* parse_opt of a generated path type on the empty stream
C16_Witness ==
    /\ Called("parse_opt") /\ CalledTy = "Cli" /\ ~is_id(commands["Cli"])
    /\ tokens = <<>> /\ PathRes.ok /\ PathRes.val = <<>>

\* C16, the errors parse_opt hands on: for an id type a stream of two
\* tokens is answered with the Trailing error of parse
C16_TrailingHandedOn ==
    (Called("parse_opt") /\ is_id(commands[CalledTy]) /\ Len(tokens) >= 2) =>
        PathFailsWith(PathTrailing(tokens[2]))

\* C16 on a generated path type: a first token that fails the lookup is
\* answered with the BadId error of parse
C16_BadIdHandedOn ==
    (/\ Called("parse_opt") /\ ~is_id(commands[CalledTy])
     /\ tokens # <<>> /\ ~PathHead.ok) =>
        PathFailsWith(PathBadId(PathHead.err))

\* C25 for CommandPath::parse and parse_opt, under SpecPath: the call takes
\* tokens from the front of the stream only and hands each to FromStr at
\* most once, in stream order; every nested call of parse_opt is made after
\* the call around it has taken its head token, so there are no more of
\* them than tokens taken, and a path has no more levels than the stream
\* has tokens
C25_PathDepth ==
    frames # <<>> =>
        /\ pos <= Len(tokens)
        /\ \A i \in 1..Len(converted) : converted[i] = i /\ i <= pos
        /\ frames[1].deepest <= Len(converted)
        /\ frames[1].deepest <= pos
        /\ (Called("parse") /\ PathRes.ok) =>
              /\ PathDepth(PathRes.val) + 1 <= Len(tokens)
              /\ PathDepth(PathRes.val) <= frames[1].deepest

\* a nested call of parse_opt two levels down that found no token left
C25_PathWitness ==
    /\ Called("parse") /\ frames[1].deepest = 2
    /\ pos = 2 /\ Len(tokens) = 2
    /\ PathRes.ok /\ PathDepth(PathRes.val) = 1

----------------------------------------------------------------------------
(* Vocabulary of the claims about Help (SpecHelp) *)

\* the calls of help made so far
HelpCalls == 1..Len(result)

\* the first-listed id of the command of call k
CalledName(k) == commands[frames[k].ty][frames[k].id].ids[1]

\* call k returned a Command topic whose usage ids include that id
CommandTopicOf(k) ==
    /\ ~result[k].panic
    /\ result[k].topic.kind = "Command"
    /\ CalledName(k) \in Range(result[k].topic.usages[1].ids)

\* C17: for every declared id X of a command set,
\* help(Some(Path::from(X))) returns a Command topic whose usage ids include
\* the first-listed id of X's command; so does help of the path of a
\* subcommand X that carries no nested path.
C17_HelpOfEveryId ==
    \A k \in HelpCalls :
        /\ frames[k].fn = "from" => CommandTopicOf(k)
        /\ (frames[k].fn = "path" /\ frames[k].path.sub /\ frames[k].path.inner = <<>>) =>
              CommandTopicOf(k)

\* what help does: for the ids of a set without subcommand it is as C17
\* says; Path::from of a generated path type panics; and the path of a
\* subcommand with no nested path is answered with help(None) of the nested
\* type
C17_HelpOfIdTypes ==
    \A k \in HelpCalls :
        /\ (frames[k].fn = "from" /\ is_id(commands[frames[k].ty])) => CommandTopicOf(k)
        /\ (frames[k].fn = "from" /\ ~is_id(commands[frames[k].ty])) => result[k].panic
        /\ (frames[k].fn = "path" /\ frames[k].path.sub /\ frames[k].path.inner = <<>>) =>
              result[k] = HelpReturn(general_help(commands[frames[k].ty][frames[k].id].sub))

\* the argument list the usage of a command is to carry
UsageArgs(cmd) ==
    [i \in 1..Len(cmd.required) |-> [name |-> cmd.required[i], is_required |-> TRUE, is_rest |-> FALSE]]
    \o [i \in 1..Len(cmd.optional) |-> [name |-> cmd.optional[i], is_required |-> FALSE, is_rest |-> FALSE]]
    \o (IF cmd.rest.kind = "None" THEN <<>>
        ELSE <<[name |-> cmd.rest.name, is_required |-> cmd.rest.kind = "Required", is_rest |-> TRUE]>>)

\* the usage of a command: all its ids, and its arguments in the order
\* required, optional, rest
UsageOf(u, cmd) == u.ids = cmd.ids /\ u.args = UsageArgs(cmd)

\* C18: help(None) on a command set (an enum, with or without subcommands)
\* returns a CommandSet topic with one usage per declared command in
\* declaration order, each with all ids of its command and its arguments in
\* the order required, optional, rest; every call on the set returns that
\* same topic, whatever was asked before.  (A struct that derives Docbot is
\* one command and no set: help(None) on it returns, likewise on every
\* call, the Command topic of that command.)
C18_GeneralHelp ==
    /\ \A k \in HelpCalls :
          frames[k].fn = "none" =>
              /\ ~result[k].panic
              /\ IF frames[k].ty \in Structs
                 THEN /\ result[k].topic.kind = "Command"
                      /\ Len(result[k].topic.usages) = 1
                      /\ UsageOf(result[k].topic.usages[1], commands[frames[k].ty][1])
                 ELSE /\ result[k].topic.kind = "CommandSet"
                      /\ Len(result[k].topic.usages) = Len(commands[frames[k].ty])
                      /\ \A i \in 1..Len(commands[frames[k].ty]) :
                            UsageOf(result[k].topic.usages[i], commands[frames[k].ty][i])
    /\ \A j, k \in HelpCalls :
          (frames[j].fn = "none" /\ frames[k].fn = "none" /\ frames[j].ty = frames[k].ty) =>
              result[j] = result[k]

\* the topic of a set whose first command has required, optional and rest
\* arguments, asked for a second time; the program has a set with a
\* subcommand
C18_Witness ==
    /\ Len(frames) >= 2
    /\ frames[1] = HelpCall("none", "Cli", NoId, NoPath)
    /\ frames[Len(frames)] = HelpCall("none", "Cli", NoId, NoPath)
    /\ Len(commands["Cli"][1].required) = 2
    /\ Len(commands["Cli"][1].optional) = 1
    /\ commands["Cli"][1].rest.kind = "Optional"
    /\ Len(result[Len(result)].topic.usages[1].args) = 4
    /\ ~is_id(commands["Sub"])

----------------------------------------------------------------------------
(* Claims about parse_usage_desc, under SpecUsage                           *)

\* what parse_usage_desc returned
UsageRes == result[1]

\* the tokens written after the id clause
Written == commands.toks

\* the id clause ends where the first token starts: a parenthesised clause,
\* or a blank before the first token
Delimited ==
    \/ Written = <<>>
    \/ commands.sep # <<>>
    \/ Len(commands.clause.ids) > 1

\* a name that has at most 2 characters or does not end in a period
NameAllowed(n) == Len(n) <= 2 \/ n[Len(n)] # "."

\* the i-th written token is a `<name>` token, a `[name]` token, a rest token
IsRequiredToken(i) == Written[i].kind = "required" /\ NameAllowed(Written[i].name)
IsOptionalToken(i) == Written[i].kind = "optional" /\ NameAllowed(Written[i].name)
IsRestToken(i) == Written[i].kind \in {"rest_required", "rest_optional"}

\* the names of the written tokens i with P(i), in written order
NamesWhere(P(_)) ==
    LET idx == {i \in 1..Len(Written) : P(i)}
        RECURSIVE Collect(_)
        Collect(i) == IF i > Len(Written) THEN <<>>
                      ELSE IF i \in idx THEN <<Written[i].name>> \o Collect(i + 1)
                      ELSE Collect(i + 1)
    IN Collect(1)

\* required tokens, then optional tokens, then at most one rest token
InShape ==
    \E r \in 0..Len(Written) : \E o \in r..Len(Written) :
        /\ \A i \in 1..r : IsRequiredToken(i)
        /\ \A i \in (r + 1)..o : IsOptionalToken(i)
        /\ Len(Written) \in {o, o + 1}
        /\ Len(Written) = o + 1 => IsRestToken(o + 1)

\* C19: the usage-line parser accepts the tokens after the identifier clause
\* only as required `<name>` tokens, then optional `[name]` tokens, then at
\* most one rest token; a `<name>` token after a `[name]` token, a token after
\* the rest token or any other leftover text fails with the trailing-string
\* error; on success required and optional hold the names in written order
\* and rest is set only for a token whose name is followed by a literal `...`.
C19_UsageShape ==
    (result # <<>> /\ Delimited) =>
        /\ UsageRes.ok <=> InShape
        /\ ~UsageRes.ok => UsageRes.err = "trailing string"
        /\ UsageRes.ok =>
            /\ UsageRes.ids = commands.clause.ids
            /\ UsageRes.required = NamesWhere(IsRequiredToken)
            /\ UsageRes.optional = NamesWhere(IsOptionalToken)
            /\ UsageRes.rest.kind # "None" => \E i \in 1..Len(Written) : IsRestToken(i)

\* the first clause of C19 alone, on names without a period: a `<name>` token
\* written after a `[name]` token fails with the trailing-string error
C19_RequiredAfterOptional ==
    (/\ result # <<>>
     /\ Delimited
     /\ \A i \in 1..Len(Written) : \A k \in 1..Len(Written[i].name) : Written[i].name[k] # "."
     /\ \E i \in 1..Len(Written) : \E j \in (i + 1)..Len(Written) :
            IsOptionalToken(i) /\ IsRequiredToken(j)) =>
        (~UsageRes.ok /\ UsageRes.err = "trailing string")

\* the only token written is a `<name>` or `[name]` token of any name
SingleToken(kind) == Len(Written) = 1 /\ Written[1].kind = kind

\* the only token written was recorded as a required / optional argument
Recorded(kind) ==
    /\ UsageRes.ok
    /\ kind = "required" => UsageRes.required = <<Written[1].name>>
    /\ kind = "optional" => UsageRes.optional = <<Written[1].name>>

\* C20: a `<name>` token is recorded as a required argument, and a `[name]`
\* token as an optional argument, if and only if its name has at most 2
\* characters or does not end in a period.
C20_NameEndingInPeriod ==
    \A kind \in {"required", "optional"} :
        (result # <<>> /\ Delimited /\ SingleToken(kind)) =>
            (Recorded(kind) <=> NameAllowed(Written[1].name))

\* what REQUIRED_ARG_RE and OPTIONAL_ARG_RE decide: the name has at most 2
\* characters, or none of its last three characters is a period
C20_LastThreeCharacters ==
    \A kind \in {"required", "optional"} :
        (result # <<>> /\ Delimited /\ SingleToken(kind)) =>
            (Recorded(kind) <=> NameAccepted(Written[1].name))

----------------------------------------------------------------------------
(* Claims about parse_argument_lines, under SpecArgs                        *)

\* what parse_argument_lines returned
ArgsRes == result[1]

\* the line documents an argument: it holds a colon; its name is the text
\* before the colon without the blanks around it
IsArgumentLine(line) == ":" \in Range(line)
LineName(line) == trim(SubSeq(line, 1, FirstAt(line, ":", 1) - 1))

\* the names the section documents, in written order
DocumentedNames ==
    LET lines == SelectSeq(commands.lines, IsArgumentLine)
    IN [i \in 1..Len(lines) |-> LineName(lines[i])]

\* the names the usage declares with their required flags, in usage order
DeclaredArgs ==
    LET u == commands.usage
    IN [i \in 1..Len(u.required) |-> <<u.required[i], TRUE>>]
       \o [i \in 1..Len(u.optional) |-> <<u.optional[i], FALSE>>]
       \o (IF u.rest.kind = "None" THEN <<>>
           ELSE <<<<u.rest.name, u.rest.kind = "Required">>>>)
DeclaredNames == [i \in 1..Len(DeclaredArgs) |-> DeclaredArgs[i][1]]

\* no element occurs twice in the sequence
Distinct(s) == \A i, j \in 1..Len(s) : s[i] = s[j] => i = j

\* one entry per usage argument, in usage order, flagged required exactly
\* for a required argument and a required rest argument
EntriesInUsageOrder ==
    /\ Len(ArgsRes.args) = Len(DeclaredArgs)
    /\ \A i \in 1..Len(DeclaredArgs) :
        /\ ArgsRes.args[i][1] = DeclaredArgs[i][1]
        /\ ArgsRes.args[i][2] = DeclaredArgs[i][2]

\* C21 as the claim states it: parsing an arguments section succeeds if and
\* only if no name is documented twice and the set of documented names
\* equals the set of names the usage declares; on success there is one entry
\* per usage argument, in usage order, with its required flag.
C21_AsStated ==
    result # <<>> =>
        /\ ArgsRes.ok <=> (Distinct(DocumentedNames)
                           /\ Range(DocumentedNames) = Range(DeclaredNames))
        /\ ArgsRes.ok => EntriesInUsageOrder

\* the lines ARGUMENT_RE matches as argument lines: the blanks after the
\* colon run over the line break, so an indented line that follows an
\* argument line without a description is taken as that description
RECURSIVE IsMatchedLine(_)
IsMatchedLine(i) ==
    LET lines == commands.lines
        IsAbsorbed ==
            /\ i > 1
            /\ IsMatchedLine(i - 1)
            /\ trim(From(lines[i - 1], FirstAt(lines[i - 1], ":", 1) + 1)) = <<>>
            /\ IsSpace(lines[i][1])
    IN IsArgumentLine(lines[i]) /\ ~IsAbsorbed

\* the names of the matched lines, in written order
RECURSIVE MatchedNamesFrom(_)
MatchedNamesFrom(i) ==
    IF i > Len(commands.lines) THEN <<>>
    ELSE (IF IsMatchedLine(i) THEN <<LineName(commands.lines[i])>> ELSE <<>>)
         \o MatchedNamesFrom(i + 1)
MatchedNames == MatchedNamesFrom(1)

\* what the code decides: success if and only if no name is matched twice,
\* the usage declares no name twice, the matched names are the declared
\* names, and the section is empty or has a matched line
C21_MatchedNamesDecide ==
    result # <<>> =>
        /\ ArgsRes.ok <=> (/\ Distinct(MatchedNames)
                           /\ Distinct(DeclaredNames)
                           /\ Range(MatchedNames) = Range(DeclaredNames)
                           /\ (given = <<>> \/ MatchedNames # <<>>))
        /\ ArgsRes.ok => EntriesInUsageOrder

\* C30: spec construction for a usage line that declares the same argument
\* name more than once always ends in a reported error and never panics,
\* whatever the arguments section documents: the reordering step is never
\* reached with a documented-name set that lacks an expected argument.
C30_DuplicateUsageNameReported ==
    (result # <<>> /\ ~Distinct(DeclaredNames)) =>
        (~ArgsRes.panic /\ ~ArgsRes.ok /\ ArgsRes.err # "")

\* the panic happens exactly when the usage declares a name twice and the
\* section has as many matched names, all distinct, as the usage has
\* arguments, the declared names among them
C30_PanicExactly ==
    result # <<>> =>
        (ArgsRes.panic <=> (/\ ~Distinct(DeclaredNames)
                            /\ Distinct(MatchedNames)
                            /\ Range(DeclaredNames) \subseteq Range(MatchedNames)
                            /\ Len(MatchedNames) = Len(DeclaredNames)))

----------------------------------------------------------------------------
(* Claims about CommandDocs::parse_docs, under SpecDocs                     *)

\* what parse_docs returned
DocsRes == result[1]

\* the paragraphs written after the usage line and those of one section
Pars == commands.pars
ParsOf(kind) == SelectSeq(Pars, LAMBDA p : p.kind = kind)

\* the text written under the header of a paragraph, its lines kept
RawText(p) == SectionText(p.body)

\* the text is one line
SingleLine(text) == NL \notin Range(text)

\* C22: the text of an examples section is stored as raw text with its line
\* breaks preserved, whereas the text of a summary section is collapsed to a
\* single line.
C22_ExamplesKeepLineBreaks ==
    (result # <<>> /\ DocsRes.ok) =>
        /\ DocsRes.examples # <<>> =>
              trim(DocsRes.examples[1]) = trim(RawText(ParsOf("examples")[1]))
        /\ DocsRes.summary # <<>> => SingleLine(DocsRes.summary[1])

\* relax_lines is applied to both sections: the stored examples text is a
\* single line too
C22_BothCollapsed ==
    (result # <<>> /\ DocsRes.ok) =>
        /\ DocsRes.examples # <<>> =>
              /\ SingleLine(DocsRes.examples[1])
              /\ DocsRes.examples[1] = relax_lines(RawText(ParsOf("examples")[1]))
        /\ DocsRes.summary # <<>> =>
              /\ SingleLine(DocsRes.summary[1])
              /\ DocsRes.summary[1] = relax_lines(RawText(ParsOf("summary")[1]))

\* the doc comment without the paragraphs whose header names no section
WithoutOtherHeaders ==
    DocLines(commands.usage_line,
             SelectSeq(Pars, LAMBDA p : p.kind \notin {"other", "malformed"}),
             commands.blanks)

\* C23: each of the sections summary (description, overview or summary, in
\* any letter case), arguments (arguments or parameters) and examples may
\* occur at most once, a second occurrence, also under a synonym, makes spec
\* construction fail; a paragraph with any other header is ignored and
\* changes nothing in the result.
C23_SectionsAtMostOnce ==
    result # <<>> =>
        /\ \A kind \in {"summary", "arguments", "examples"} :
              Len(ParsOf(kind)) >= 2 => ~DocsRes.ok
        /\ DocsRes = parse_docs(WithoutOtherHeaders)

\* what holds of C23: for paragraphs that each follow one empty line and
\* have a header of one word
C23_SingleBlankLines ==
    (result # <<>> /\ commands.blanks = 1 /\ ParsOf("malformed") = <<>>) =>
        /\ \A kind \in {"summary", "arguments", "examples"} :
              Len(ParsOf(kind)) >= 2 => (~DocsRes.ok /\ ~DocsRes.panic)
        /\ DocsRes = parse_docs(WithoutOtherHeaders)

\* after two empty lines in a row nothing is read: the result is that of
\* the usage line alone
C23_NothingReadAfterTwoBlankLines ==
    (result # <<>> /\ commands.blanks = 2) =>
        DocsRes = parse_docs(<<commands.usage_line>>)

----------------------------------------------------------------------------
(* Claims about spec construction, under SpecBuild                          *)

\* what Command::new returned
BuildRes == result[1]

\* the usage line of the doc comment, as parse_usage_desc reads it
DeclaredUsage == parse_usage_desc(take_paragraph(tokens, FALSE).par)

\* the doc comment is accepted: it has a usage line and a description, and
\* its arguments section documents every argument of the usage line once
\* and nothing else
DocsAccepted == parse_command(tokens).ok

\* the arguments the usage line declares: name and whether it is the rest
\* argument, required first, then optional, then rest
BuildArgs ==
    LET u == DeclaredUsage
    IN [i \in 1..Len(u.required) |-> [name |-> u.required[i], is_rest |-> FALSE]]
       \o [i \in 1..Len(u.optional) |-> [name |-> u.optional[i], is_rest |-> FALSE]]
       \o (IF u.rest.kind = "None" THEN <<>> ELSE <<[name |-> u.rest.name, is_rest |-> TRUE]>>)

\* required count + optional count + 1 if a rest argument exists
DeclaredCount ==
    Len(DeclaredUsage.required) + Len(DeclaredUsage.optional)
    + (IF DeclaredUsage.rest.kind = "None" THEN 0 ELSE 1)

\* the fields of the structure
FieldList == commands.fields.list
FieldCount == Len(FieldList)

\* C24: spec construction succeeds only if the number of arguments the
\* usage line declares equals the number of fields of the structure; every
\* mismatch, arguments declared for a unit structure included, is rejected
\* at build time and never reaches a parse call.
C24_ArityAtBuild ==
    /\ (result # <<>> /\ BuildRes.ok) => DeclaredCount = FieldCount
    /\ (result # <<>> /\ DeclaredCount # FieldCount) =>
            (~BuildRes.ok /\ stage = "rejected" /\ frames = <<>>)
    /\ frames # <<>> => Len(frames[1].fields) = FieldCount

\* a tuple structure with more fields than the usage declares arguments was
\* rejected
C24_Witness ==
    /\ result # <<>>
    /\ commands.fields.kind = "Unnamed"
    /\ DeclaredCount >= 1
    /\ DeclaredCount < FieldCount
    /\ stage = "rejected"
    /\ BuildRes.err = "mismatched number of fields and arguments"

\* every field has its argument: by position in a tuple structure, by name
\* in a structure with named fields
FieldsMatch ==
    CASE commands.fields.kind = "Unit" -> BuildArgs = <<>>
      [] commands.fields.kind = "Unnamed" -> Len(BuildArgs) = FieldCount
      [] commands.fields.kind = "Named" ->
            /\ Len(BuildArgs) = FieldCount
            /\ {BuildArgs[i].name : i \in 1..Len(BuildArgs)}
               = {FieldList[i].name : i \in 1..FieldCount}

\* field i is the rest field
FieldIsRest(i) ==
    IF commands.fields.kind = "Named"
    THEN \E k \in 1..Len(BuildArgs) :
            BuildArgs[k].name = FieldList[i].name /\ BuildArgs[k].is_rest
    ELSE BuildArgs[i].is_rest

\* C26: spec construction accepts a command tagged subcommand only if it
\* has exactly one field, a rest field not tagged path, and accepts a field
\* tagged path only if it is a rest field; every other combination is
\* rejected at build time.  Of the commands whose doc comment is accepted
\* and whose fields match the arguments, exactly those are accepted by
\* Command::new; the derive emits items for an accepted command only, and
\* for a rejected one none, so that no parse is ever called on it.
C26_SubcommandAndPathFields ==
    result # <<>> =>
        /\ BuildRes.ok <=>
              /\ DocsAccepted
              /\ FieldsMatch
              /\ commands.subcommand =>
                      (FieldCount = 1 /\ FieldIsRest(1) /\ ~FieldList[1].path)
              /\ \A i \in 1..FieldCount : FieldList[i].path => FieldIsRest(i)
        /\ stage = "built" => BuildRes.ok
        /\ ~BuildRes.ok => (stage = "rejected" /\ frames = <<>>)

\* a structure with a required field and a rest field tagged path was
\* accepted
C26_Witness ==
    /\ result # <<>>
    /\ BuildRes.ok
    /\ FieldCount = 2
    /\ \E i \in 1..FieldCount : FieldList[i].path
    /\ ~commands.subcommand

\* a structure tagged subcommand that Command::new accepted: its single
\* field is a rest field; the build then fails on the path items emitted
\* for a structure, and no parse is called
C26_SubcommandStruct ==
    /\ result # <<>>
    /\ BuildRes.ok
    /\ commands.subcommand
    /\ FieldCount = 1 /\ FieldIsRest(1)
    /\ stage = "rejected" /\ frames = <<>>

----------------------------------------------------------------------------
(* Claims about the run of Command::parse, under Spec                        *)

\* the calls of Command::parse that have taken their head token and found
\* its command
PastHead == {i \in 1..Len(frames) : frames[i].id # NoId}

\* the positions in `converted` grow: no token is converted twice, none
\* after a later one
ConvertedInOrder ==
    \A i, j \in 1..Len(converted) : i < j => converted[i] < converted[j]

\* the steps a call has before it at most, by its position: a call at its
\* head or waiting for a nested call, a call at field k, a call about to
\* return
FrameRank(f) ==
    CASE f.pc = "head" -> 2
      [] f.pc = "call" -> 2
      [] f.pc = "fields" -> 5 + (MaxReq + MaxOpt + 2 - f.field)
      [] f.pc = "done" -> 1

RECURSIVE SumRanks(_)
SumRanks(fs) == IF fs = <<>> THEN 0 ELSE FrameRank(Head(fs)) + SumRanks(Tail(fs))

\* a bound on the steps left: every token still in the stream pays for the
\* fields of the command it may select
StepsLeft == (MaxReq + MaxOpt + 7) * (Len(tokens) - pos) + SumRanks(frames)

\* a step of Command::parse can be taken: the innermost call is at its head,
\* at a field, past its fields or about to return
CanStep == frames # <<>> /\ Top.pc \in {"head", "fields", "done"}

\* CanStep is the enabling condition of Next
C25_CanStepIsEnabled == CanStep <=> ENABLED Next

C25_EventuallyReturns == <>(stage = "built" => result # <<>>)

C25_AllRead ==
    /\ Returned /\ Res.ok
    /\ Len(tokens) = 4
    /\ pos = 4
    /\ converted = <<2, 3, 4>>

\* the first field, in declared order, whose token does not convert
FirstBadField(n) == CHOOSE k \in 1..n : ~Converts(Args[k]) /\ \A j \in 1..(k - 1) : Converts(Args[j])

\* C28: for a command without a rest field the trailing-token check runs
\* only after every declared field has been read and converted: with a token
\* that fails conversion for a field and surplus tokens beyond the declared
\* fields, the result is BadConvert for that field and never Trailing.
C28_ConversionBeforeTrailing ==
    LET n == Len(HeadCmd.required) + Len(HeadCmd.optional)
    IN (/\ Returned /\ HeadResolved /\ HeadCmd.rest.kind = "None"
        /\ Len(Args) > n
        /\ \E k \in 1..n : ~Converts(Args[k])) =>
            /\ FailsWith(BadConvert(HeadName, FieldName(HeadCmd, FirstBadField(n)),
                                    parse_arg(Args[FirstBadField(n)]).err))
            /\ Res.err.tag # "Trailing"

\* a required and an optional field, the optional one given a word, and a
\* token beyond the two fields
C28_Witness ==
    /\ Returned /\ HeadResolved /\ HeadCmd.rest.kind = "None"
    /\ Len(HeadCmd.required) = 1 /\ Len(HeadCmd.optional) = 1
    /\ Len(Args) = 3
    /\ Converts(Args[1]) /\ ~Converts(Args[2])
    /\ ~Res.ok /\ Res.err.tag = "BadConvert"

\* C29: in every value Command::parse returns the optional fields are
\* filled left to right: if an optional field is None, every later optional
\* field is None and a following optional rest field is empty.
C29_OptionalsFilledLeftToRight ==
    (Returned /\ Res.ok /\ HeadCmd.sub = "") =>
        LET R == Len(HeadCmd.required)
            O == Len(HeadCmd.optional)
            fields == Res.val.fields
        IN \A i \in (R + 1)..(R + O) :
              fields[i] = <<>> =>
                 /\ \A j \in (i + 1)..(R + O) : fields[j] = <<>>
                 /\ HeadCmd.rest.kind = "Optional" => fields[R + O + 1] = <<>>

\* two optional fields and an optional rest field: the first optional field
\* is Some, the second None and the rest empty
C29_Witness ==
    /\ Returned /\ Res.ok /\ HeadCmd.sub = ""
    /\ Len(HeadCmd.optional) = 2 /\ HeadCmd.rest.kind = "Optional"
    /\ LET R == Len(HeadCmd.required)
       IN /\ Res.val.fields[R + 1] # <<>>
          /\ Res.val.fields[R + 2] = <<>>
          /\ Res.val.fields[R + 3] = <<>>

----------------------------------------------------------------------------
(* C27: fold_command_parse                                                  *)

Folded == stage = "folded"

\* the names of the Subcommand wrappers an error is nested under, outermost
\* first
RECURSIVE SubcommandWrappers(_)
SubcommandWrappers(e) ==
    IF e.tag = "Subcommand" THEN <<e.cmd>> \o SubcommandWrappers(e.inner) ELSE <<>>

\* the error under the Subcommand wrappers
RECURSIVE Wrapped(_)
Wrapped(e) == IF e.tag = "Subcommand" THEN Wrapped(e.inner) ELSE e

\* the wrapping levels of the whole error, outermost first, as the
\* invocations they are due: a Subcommand, or a BadConvert around its cause;
\* the levels go on inside a cause that is a CommandParseError
RECURSIVE WrapperCalls(_)
WrapperCalls(e) ==
    CASE e.tag = "Subcommand" ->
            <<Call("subcommand", e.cmd, <<>>, <<>>, <<>>)>> \o WrapperCalls(e.inner)
      [] e.tag = "BadConvert" ->
            <<Call("bad_convert", e.cmd, e.arg, <<>>, <<>>)>>
            \o (IF e.cause.kind = "CommandParse" THEN WrapperCalls(e.cause.err) ELSE <<>>)
      [] OTHER -> <<>>

Reversed(s) == [i \in 1..Len(s) |-> s[Len(s) + 1 - i]]

IsSubcommandCall(c) == c.handler = "subcommand"
IsOtherCall(c) == c.handler # "subcommand"
IsWrapperCall(c) == c.handler \in {"subcommand", "bad_convert"}

\* the handlers that are given no output of an inner fold
LeafHandlers ==
    {"no_input", "missing_required", "trailing", "no_id_match", "ambiguous_id",
     "incomplete_path", "trailing_path", "other"}

CmdsOf(calls) == [i \in 1..Len(calls) |-> calls[i].cmd]

\* C27 as stated: folding an error nested under n Subcommand wrappers invokes
\* the subcommand handler exactly n times, innermost first and each time with
\* the command name of its level, after exactly one handler that is not the
\* subcommand handler; a BadId is folded as its IdParseError
C27_OneHandlerUnderSubcommands ==
    Folded =>
        /\ CmdsOf(SelectSeq(result, IsSubcommandCall)) = Reversed(SubcommandWrappers(commands))
        /\ Len(SelectSeq(result, IsOtherCall)) = 1
        /\ IsOtherCall(result[1])
        /\ Wrapped(commands).tag = "BadId" =>
                SelectSeq(result, IsOtherCall) = fold_id_parse(Wrapped(commands).id_err)

\* C27 (amended): fold_command_parse returns for every error, having invoked
\* one handler per level, innermost first: first exactly one of the handlers
\* that take no inner output, then the handler of every wrapping level from
\* the innermost to the outermost, where the wrapping levels are the
\* Subcommands (with the command name of the level) and the BadConverts (with
\* their command and argument), those inside the cause of a BadConvert
\* included; a BadId is folded as its IdParseError
C27_OneHandlerPerLevel ==
    Folded =>
        /\ result # <<>>
        /\ result[1].handler \in LeafHandlers
        /\ \A i \in 2..Len(result) : IsWrapperCall(result[i])
        /\ Tail(result) = Reversed(WrapperCalls(commands))
        /\ commands.tag = "BadId" => result = fold_id_parse(commands.id_err)
        /\ Wrapped(commands).tag = "BadId" =>
                SelectSeq(result, IsOtherCall) = fold_id_parse(Wrapped(commands).id_err)

\* an error under two Subcommand wrappers of different names whose BadConvert
\* holds a CommandParseError with a Subcommand of its own has been folded
C27_Witness ==
    /\ Folded
    /\ Len(SubcommandWrappers(commands)) = 2
    /\ commands.cmd # commands.inner.cmd
    /\ Wrapped(commands).tag = "BadConvert"
    /\ Wrapped(commands).cause.kind = "CommandParse"
    /\ Wrapped(commands).cause.err.tag = "Subcommand"
    /\ Len(result) = 5

\* a BadId under a Subcommand wrapper has been folded
C27_WitnessBadId ==
    /\ Folded
    /\ commands.tag = "Subcommand"
    /\ commands.inner.tag = "BadId"
    /\ Len(result) = 2

\* C27 read with the BadConvert handler counted as a wrapper as well: the
\* subcommand handler is invoked once per Subcommand wrapper the error is
\* nested under, after exactly one handler that is no wrapper.  The
\* Subcommands inside the cause of a BadConvert are folded too
C27_BadConvertAsWrapper ==
    Folded =>
        /\ CmdsOf(SelectSeq(result, IsSubcommandCall)) = Reversed(SubcommandWrappers(commands))
        /\ Len(SelectSeq(result, LAMBDA c : ~IsWrapperCall(c))) = 1

====
